---- MODULE Spec2Model ----
(***************************************************************************)
(* cliphunter: the job store (JobService over SQLite), the single-slot     *)
(* work queue (SimpleQueue) and the polling worker (VideoProcessor).       *)
(*                                                                         *)
(* The worker is its own OS process; the HTTP routes (create, cancel) run  *)
(* in the web server process.  The two share only the SQLite file, so one  *)
(* SQL statement is the unit of atomicity between them, while the queue's  *)
(* isProcessing flag lives in the worker process alone.                    *)
(***************************************************************************)
EXTENDS Integers, Sequences, FiniteSets, TLC

\* ------------------------------------------------------------------ bounds
MaxJobs == 2          \* job records the store may hold
MaxClock == 1         \* Date.now() ranges over 0..MaxClock
NumActivations == 2   \* processNextJob activations alive at once (startup call, ticks)
MaxClipFiles == 2     \* rendered clip files on disk
MaxCount == 3         \* maxClips of an analysis call ranges over 1..MaxCount
MaxTimestamps == 3    \* scene changes the detector reports for one source
MaxScenes == 3        \* scenes handed to scoreScenes and selectBestScenes directly

JobIds == 1..MaxJobs
Activations == 1..NumActivations
ClipFiles == 1..MaxClipFiles

\* ------------------------------------------------------------------ constants of the program
Null == [null |-> TRUE]     \* SQL NULL / undefined / a missing row
NoId == 0                   \* dequeue() returned null

JOB_STATUS == [QUEUED |-> "queued", PROCESSING |-> "processing", COMPLETED |-> "completed",
               FAILED |-> "failed", CANCELLED |-> "cancelled"]

PROCESSING_STEPS == [DOWNLOADING |-> "downloading", ANALYZING |-> "analyzing",
                     TRANSCRIBING |-> "transcribing", GENERATING |-> "generating",
                     DONE |-> "done", ERROR |-> "error"]

DefaultMaxClips == 5

\* JavaScript values: undefined, a number, a boolean.
Undefined == [undefined |-> TRUE]
Num(n) == [number |-> n]
Bool(b) == [boolean |-> b]

\* A JobOptions object, by what reading each of its properties gives (undefined for a
\* property that is not there).
JobOptions(clipDuration, maxClips, includeSubtitles) ==
    [clipDuration |-> clipDuration, maxClips |-> maxClips,
     includeSubtitles |-> includeSubtitles]

OptionKeys == <<"clipDuration", "maxClips", "includeSubtitles">>

\* A URL, by the parts the patterns tell apart: scheme://host path id
Url(scheme, host, path, id) == [scheme |-> scheme, host |-> host, path |-> path, id |-> id]

\* Bodies of the create requests that pass createJobSchema (inputs of the model).
Requests ==
    { [videoUrl |-> Url("https", "www.youtube.com", "/watch?v=", "abc123"),
       options |-> JobOptions(Undefined, Num(2), Bool(TRUE))],
      [videoUrl |-> Url("https", "youtu.be", "/", "abc123"),
       options |-> JobOptions(Undefined, Num(1), Bool(FALSE))] }

\* Messages of the exceptions the pipeline stages raise.
DbErrorMsg == "SqliteError"
DownloadErrorMsg == "Failed to download video"
AnalyzeErrorMsg == "ffprobe failed"
DetectErrorMsg == "Scene detection failed: Command failed: ffmpeg"
MkdirErrorMsg == "EACCES: mkdir"
RenderErrorMsg == "ffmpeg exited with code 1"

\* Percentages printed by yt-dlp ([download] lines) and by ffmpeg (timemark / duration).
DlPercents == {0, 50, 100}
ClipPercents == {0, 50, 100}

\* Math.round(a / b) for a >= 0, b > 0: round half up.
RoundDiv(a, b) == (2 * a + b) \div (2 * b)

VARIABLES
    jobs,        \* the jobs table: JobIds -> a job record, or Null where no row exists
    clock,       \* Date.now()
    busy,        \* SimpleQueue.isProcessing (worker process)
    act,         \* processNextJob activations: position and locals
    cancelReq,   \* the cancel route's request in progress
    ret,         \* what the last direct queue call returned to its caller
    analysis,    \* a call of the scene analysis (VideoService) in progress
    files,       \* the rendered clip files: what is burned into their frames
    titleReq,    \* the regenerate route's request in progress
    layout       \* a call of the title layout (ClipService) in progress

vars == <<jobs, clock, busy, act, cancelReq, ret, analysis, files, titleReq, layout>>

\* ------------------------------------------------------------------ JobService
Progress(step, percentage, message) ==
    [step |-> step, percentage |-> percentage, message |-> message]

\* JSON.stringify of a JobOptions object that forgets the falsy properties as well.
stringifyTruthy(obj) ==
    LET keys == SelectSeq(OptionKeys,
                          LAMBDA k : obj[k] \notin {Undefined, Num(0), Bool(FALSE)})
    IN  [i \in 1..Len(keys) |-> [key |-> keys[i], value |-> obj[keys[i]]]]

\* JSON.stringify of a JobOptions object: the text lists the members whose value is
\* defined, in the order of the object's keys; an undefined property is left out.
stringify(obj) ==
    LET keys == SelectSeq(OptionKeys, LAMBDA k : obj[k] # Undefined)
    IN  [i \in 1..Len(keys) |-> [key |-> keys[i], value |-> obj[keys[i]]]]

\* JSON.parse of such a text: the object with the members of the text.
parse(text) ==
    LET member(k) == {i \in 1..Len(text) : text[i].key = k}
    IN  [k \in {OptionKeys[i] : i \in 1..Len(OptionKeys)} |->
            IF member(k) = {} THEN Undefined ELSE text[CHOOSE i \in member(k) : TRUE].value]

\* createJob: the options of the Job it builds and returns.
jobOptions(options) ==
    JobOptions(options.clipDuration,
               IF options.maxClips \in {Undefined, Num(0)} THEN Num(DefaultMaxClips)
               ELSE options.maxClips,
               IF options.includeSubtitles = Undefined THEN Bool(TRUE)
               ELSE options.includeSubtitles)

\* createJob whose row starts with the status of a run under way.
createJobProcessing(id, req, now) ==
    [id |-> id,
     videoUrl |-> req.videoUrl,
     status |-> JOB_STATUS.PROCESSING,
     progress |-> Progress(PROCESSING_STEPS.DOWNLOADING, 0, "Job queued"),
     result |-> Null,
     error |-> Null,
     options |-> stringify(jobOptions(req.options)),
     createdAt |-> now,
     updatedAt |-> now]

\* createJob: the row inserted for a request; the options column holds the JSON text.
createJob(id, req, now) ==
    [id |-> id,
     videoUrl |-> req.videoUrl,
     status |-> JOB_STATUS.QUEUED,
     progress |-> Progress(PROCESSING_STEPS.DOWNLOADING, 0, "Job queued"),
     result |-> Null,
     error |-> Null,
     options |-> stringify(jobOptions(req.options)),
     createdAt |-> now,
     updatedAt |-> now]

\* recordToJob: the Job of a row, its options parsed.
recordToJob(record) == [record EXCEPT !.options = parse(@)]

\* getJob: the Job of the row with that id, or null.
getJob(s, id) == IF s[id] = Null THEN Null ELSE recordToJob(s[id])

\* UPDATE ... WHERE id = ?: no row, no change.
updateJobStatus(s, id, status, progress, now) ==
    IF s[id] = Null THEN s
    ELSE [s EXCEPT ![id].status = status, ![id].progress = progress, ![id].updatedAt = now]

updateJobProgress(s, id, progress, now) ==
    IF s[id] = Null THEN s
    ELSE [s EXCEPT ![id].progress = progress, ![id].updatedAt = now]

\* completeJob that writes the row anew, its creation time included.
completeJobReplacingRow(s, id, result, now) ==
    IF s[id] = Null THEN s
    ELSE [s EXCEPT ![id].status = JOB_STATUS.COMPLETED,
                   ![id].result = result,
                   ![id].progress = Progress(PROCESSING_STEPS.DONE, 100,
                                             "Clips generated successfully"),
                   ![id].createdAt = now,
                   ![id].updatedAt = now]

completeJob(s, id, result, now) ==
    IF s[id] = Null THEN s
    ELSE [s EXCEPT ![id].status = JOB_STATUS.COMPLETED,
                   ![id].result = result,
                   ![id].progress = Progress(PROCESSING_STEPS.DONE, 100,
                                             "Clips generated successfully"),
                   ![id].updatedAt = now]

failJob(s, id, error, now) ==
    IF s[id] = Null THEN s
    ELSE [s EXCEPT ![id].status = JOB_STATUS.FAILED,
                   ![id].error = error,
                   ![id].progress = Progress(PROCESSING_STEPS.ERROR, 0, error.message),
                   ![id].updatedAt = now]

\* updateClipTitle whose clip is found by position, not by id.
updateClipTitleFirst(s, id, clipId, newTitle) ==
    IF s[id] = Null \/ s[id].result = Null THEN s
    ELSE [s EXCEPT ![id].result.clips =
              [i \in 1..Len(@) |-> IF i = 1 THEN [@[i] EXCEPT !.title = newTitle] ELSE @[i]]]

\* updateClipTitle: the clip with that id inside the job's stored result gets the new
\* title, in place; a job without a result is left alone.
updateClipTitle(s, id, clipId, newTitle) ==
    IF s[id] = Null \/ s[id].result = Null THEN s
    ELSE [s EXCEPT ![id].result.clips =
              [i \in 1..Len(@) |-> IF @[i].id = clipId THEN [@[i] EXCEPT !.title = newTitle]
                                   ELSE @[i]]]

\* cancelJob whose status test forgets COMPLETED.
cancelJobAllowedForgetful(s, id) ==
    /\ s[id] # Null
    /\ s[id].status \notin {JOB_STATUS.FAILED}

\* cancelJob, first statement: getJob and the status test.  TRUE when the UPDATE follows.
cancelJobAllowed(s, id) ==
    /\ s[id] # Null
    /\ s[id].status \notin {JOB_STATUS.COMPLETED, JOB_STATUS.FAILED}

\* cancelJob, second statement: the UPDATE.
cancelJobWrite(s, id, now) ==
    IF s[id] = Null THEN s
    ELSE [s EXCEPT ![id].status = JOB_STATUS.CANCELLED, ![id].updatedAt = now]

\* Row a comes before row b in idx_jobs_status_created (status, created_at, rowid); the
\* rowid grows with every INSERT, as the ids of the model do.
CreatedBefore(s, a, b) ==
    \/ s[a].createdAt < s[b].createdAt
    \/ (s[a].createdAt = s[b].createdAt /\ a <= b)

\* getNextQueuedJob whose WHERE clause admits cancelled rows as well.
getNextQueuedJobOrCancelled(s) ==
    LET waiting == {JOB_STATUS.QUEUED, JOB_STATUS.CANCELLED}
    IN  { j \in JobIds :
            /\ s[j] # Null
            /\ s[j].status \in waiting
            /\ \A k \in JobIds :
                  (s[k] # Null /\ s[k].status \in waiting) => CreatedBefore(s, j, k) }

\* getNextQueuedJob with ORDER BY created_at DESC.
getNextQueuedJobNewest(s) ==
    { j \in JobIds :
        /\ s[j] # Null
        /\ s[j].status = JOB_STATUS.QUEUED
        /\ \A k \in JobIds :
              (s[k] # Null /\ s[k].status = JOB_STATUS.QUEUED) => CreatedBefore(s, k, j) }

\* getNextQueuedJob: the row of SELECT ... WHERE status = 'queued' ORDER BY created_at ASC
\* LIMIT 1, as a set: empty when no row is queued.
getNextQueuedJob(s) ==
    { j \in JobIds :
        /\ s[j] # Null
        /\ s[j].status = JOB_STATUS.QUEUED
        /\ \A k \in JobIds :
              (s[k] # Null /\ s[k].status = JOB_STATUS.QUEUED) => CreatedBefore(s, j, k) }

\* ------------------------------------------------------------------ SimpleQueue
\* dequeue() that forgets to raise isProcessing.
dequeueNoFlag(b, s) ==
    IF b THEN { [job |-> NoId, isProcessing |-> b] }
    ELSE IF getNextQueuedJob(s) = {} THEN { [job |-> NoId, isProcessing |-> b] }
    ELSE { [job |-> j, isProcessing |-> b] : j \in getNextQueuedJob(s) }

\* dequeue() that does not test isProcessing first.
dequeueNoTest(b, s) ==
    IF getNextQueuedJob(s) = {} THEN { [job |-> NoId, isProcessing |-> b] }
    ELSE { [job |-> j, isProcessing |-> TRUE] : j \in getNextQueuedJob(s) }

\* dequeue(): the possible outcomes [job, isProcessing] for flag b and store s.
dequeue(b, s) ==
    IF b THEN { [job |-> NoId, isProcessing |-> b] }
    ELSE IF getNextQueuedJob(s) = {} THEN { [job |-> NoId, isProcessing |-> b] }
    ELSE { [job |-> j, isProcessing |-> TRUE] : j \in getNextQueuedJob(s) }

\* complete(jobId) that leaves isProcessing as it finds it.
completeKeepingFlag(b, jobId) == b

\* complete(jobId) and fail(jobId): the flag afterwards.
complete(b, jobId) == FALSE

fail(b, jobId) == FALSE

isQueueBusy(b) == b

\* ------------------------------------------------------------------ VideoService
\* Times are in sixtieths of a second, so that duration / (count + 1) is exact for the
\* counts of the model; scores are in 1/14400, so that every term of a score is exact.
Sec(n) == 60 * n

Score(num, den) == (14400 * num) \div den

Max(a, b) == IF a >= b THEN a ELSE b

Min(a, b) == IF a <= b THEN a ELSE b

Abs(a) == IF a >= 0 THEN a ELSE 0 - a

CLIP_CONFIG == [minDuration |-> Sec(15), maxDuration |-> Sec(60), defaultDuration |-> Sec(45),
                minTimeBetweenClips |-> Sec(5)]

\* CLIP_CONFIG.paddingBefore and CLIP_CONFIG.paddingAfter: the lead-in and lead-out.
paddingBefore == Sec(2)

paddingAfter == Sec(3)

Scene(startTime, endTime, score) ==
    [startTime |-> startTime, endTime |-> endTime, duration |-> endTime - startTime,
     score |-> score]

\* detectScenes, the loop body for the timestamps i and i + 1 (1-based here).
detectScene(timestamps, i, duration) ==
    LET startTime == Max(0, timestamps[i] - paddingBefore)
        endTime == Min(timestamps[i + 1] + paddingAfter, duration)
        d == endTime - startTime
    IN  Scene(startTime,
              IF d < CLIP_CONFIG.minDuration
              THEN Min(startTime + CLIP_CONFIG.minDuration, duration)
              ELSE IF d > CLIP_CONFIG.maxDuration THEN startTime + CLIP_CONFIG.maxDuration
              ELSE endTime,
              Score(1, 2))

\* detectScenes once ffmpeg has printed its pts_time lines: one scene per pair of
\* consecutive timestamps.
detectScenes(timestamps, duration) ==
    [i \in 1..(IF Len(timestamps) = 0 THEN 0 ELSE Len(timestamps) - 1) |->
        detectScene(timestamps, i, duration)]

\* scoreScenes without the cap Math.min(score, 1).
sceneScoreUncapped(scene, duration) ==
    LET inMiddle70 == duration > 0 /\ 100 * scene.startTime > 15 * duration
                                   /\ 100 * scene.startTime < 85 * duration
        inMiddle40 == duration > 0 /\ 10 * scene.startTime > 3 * duration
                                   /\ 10 * scene.startTime < 7 * duration
        idealDuration == Sec(60)
        durationDiff == Abs(scene.duration - idealDuration)
    IN  Score(1, 2)
          + (IF inMiddle70 THEN Score(15, 100) ELSE 0)
          + (IF inMiddle40 THEN Score(1, 10) ELSE 0)
          + (IF durationDiff >= idealDuration THEN 0
             ELSE (Score(1, 4) * (idealDuration - durationDiff)) \div idealDuration)
          + (IF scene.duration >= Sec(60) THEN Score(1, 10) ELSE 0)

\* scoreScenes, the score of one scene.  position = startTime / duration is NaN or
\* Infinity for duration 0, and then no comparison pair holds.
sceneScore(scene, duration) ==
    LET inMiddle70 == duration > 0 /\ 100 * scene.startTime > 15 * duration
                                   /\ 100 * scene.startTime < 85 * duration
        inMiddle40 == duration > 0 /\ 10 * scene.startTime > 3 * duration
                                   /\ 10 * scene.startTime < 7 * duration
        idealDuration == Sec(60)
        durationDiff == Abs(scene.duration - idealDuration)
        score == Score(1, 2)
                   + (IF inMiddle70 THEN Score(15, 100) ELSE 0)
                   + (IF inMiddle40 THEN Score(1, 10) ELSE 0)
                   + (IF durationDiff >= idealDuration THEN 0
                      ELSE (Score(1, 4) * (idealDuration - durationDiff)) \div idealDuration)
                   + (IF scene.duration >= Sec(60) THEN Score(1, 10) ELSE 0)
    IN  Min(score, Score(1, 1))

scoreScenes(scenes, duration) ==
    [i \in 1..Len(scenes) |-> [scenes[i] EXCEPT !.score = sceneScore(scenes[i], duration)]]

\* Array.prototype.sort is stable: x goes behind every element whose key is not larger.
RECURSIVE insertSorted(_, _)
insertSorted(sorted, x) ==
    IF sorted = <<>> THEN <<x>>
    ELSE IF sorted[Len(sorted)].key <= x.key THEN Append(sorted, x)
    ELSE Append(insertSorted(SubSeq(sorted, 1, Len(sorted) - 1), x), sorted[Len(sorted)])

RECURSIVE sortKeyed(_)
sortKeyed(keyed) ==
    IF keyed = <<>> THEN <<>>
    ELSE insertSorted(sortKeyed(SubSeq(keyed, 1, Len(keyed) - 1)), keyed[Len(keyed)])

\* [...scenes].sort((a, b) => b.score - a.score)
sortByScoreDescending(scenes) ==
    LET sorted == sortKeyed([i \in 1..Len(scenes) |->
                                [key |-> 0 - scenes[i].score, scene |-> scenes[i]]])
    IN  [i \in 1..Len(sorted) |-> sorted[i].scene]

\* selected.sort((a, b) => a.startTime - b.startTime)
sortByStartTime(scenes) ==
    LET sorted == sortKeyed([i \in 1..Len(scenes) |->
                                [key |-> scenes[i].startTime, scene |-> scenes[i]]])
    IN  [i \in 1..Len(sorted) |-> sorted[i].scene]

\* The test of selectBestScenes without the minimum spacing: overlap alone.
tooCloseOverlapOnly(scene, s) ==
    \/ (scene.startTime >= s.startTime /\ scene.startTime < s.endTime)
    \/ (scene.endTime > s.startTime /\ scene.endTime <= s.endTime)
    \/ (scene.startTime <= s.startTime /\ scene.endTime >= s.endTime)

\* selectBestScenes, the callback of selected.some: scene overlaps s or is too close to it.
tooClose(scene, s) ==
    LET minSpacing == CLIP_CONFIG.minTimeBetweenClips
        overlaps ==
            \/ (scene.startTime >= s.startTime /\ scene.startTime < s.endTime)
            \/ (scene.endTime > s.startTime /\ scene.endTime <= s.endTime)
            \/ (scene.startTime <= s.startTime /\ scene.endTime >= s.endTime)
        spacingOk ==
            \/ scene.endTime + minSpacing < s.startTime
            \/ scene.startTime > s.endTime + minSpacing
    IN  overlaps \/ ~spacingOk

\* The loop of selectBestScenes without its break at maxClips.
RECURSIVE selectLoopNoBreak(_, _, _, _)
selectLoopNoBreak(sorted, i, selected, maxClips) ==
    IF i > Len(sorted) THEN selected
    ELSE IF \E k \in 1..Len(selected) : tooClose(sorted[i], selected[k])
         THEN selectLoopNoBreak(sorted, i + 1, selected, maxClips)
         ELSE selectLoopNoBreak(sorted, i + 1, Append(selected, sorted[i]), maxClips)

\* The loop of selectBestScenes over the scenes sorted by score, from index i on.
RECURSIVE selectLoop(_, _, _, _)
selectLoop(sorted, i, selected, maxClips) ==
    IF i > Len(sorted) THEN selected
    ELSE IF Len(selected) >= maxClips THEN selected
    ELSE IF \E k \in 1..Len(selected) : tooClose(sorted[i], selected[k])
         THEN selectLoop(sorted, i + 1, selected, maxClips)
         ELSE selectLoop(sorted, i + 1, Append(selected, sorted[i]), maxClips)

selectBestScenes(scenes, maxClips) ==
    sortByStartTime(selectLoop(sortByScoreDescending(scenes), 1, <<>>, maxClips))

\* createFallbackScenes: count windows of the default duration.
createFallbackScenes(duration, count) ==
    LET clipDuration == CLIP_CONFIG.defaultDuration
        step == Max(duration \div (count + 1), clipDuration)
    IN  [k \in 1..count |->
            LET startTime == Min(k * step, duration - clipDuration)
                endTime == Min(startTime + clipDuration, duration)
            IN  Scene(startTime, endTime, Score(3, 10))]

\* analyzeVideo once the metadata are read and the detector has returned: fall back when
\* too few scenes were detected, score, select.
analyzeVideo(timestamps, duration, maxClips) ==
    LET detected == detectScenes(timestamps, duration)
        scenes == IF Len(detected) < maxClips THEN createFallbackScenes(duration, maxClips)
                  ELSE detected
    IN  selectBestScenes(scoreScenes(scenes, duration), maxClips)

\* ------------------------------------------------------------------ validation
\* YOUTUBE_URL_PATTERNS: the watch, the short and the shorts URL, each with a non-empty id.
YOUTUBE_URL_PATTERNS(url) ==
    << /\ url.scheme \in {"http", "https"}
       /\ url.host \in {"youtube.com", "www.youtube.com"}
       /\ url.path = "/watch?v="
       /\ url.id # "",
       /\ url.scheme \in {"http", "https"}
       /\ url.host = "youtu.be"
       /\ url.path = "/"
       /\ url.id # "",
       /\ url.scheme \in {"http", "https"}
       /\ url.host \in {"youtube.com", "www.youtube.com"}
       /\ url.path = "/shorts/"
       /\ url.id # "" >>

isValidYouTubeUrl(url) == \E i \in 1..3 : YOUTUBE_URL_PATTERNS(url)[i]

\* extractVideoId: the capture of the first of the three searches that matches, or null.
\* The searches are not anchored: [?&]v=([^&]+) needs the watch path and a character
\* after it; youtu\.be\/([^?]+) needs the host youtu.be and a character after its slash,
\* and captures up to the first question mark; \/shorts\/([^?]+) needs the shorts path
\* and a character after it.  A capture is the string of the pieces it is made of.
extractVideoId(url) ==
    IF url.path = "/watch?v=" /\ url.id # "" THEN [string |-> <<url.id>>]
    ELSE IF url.host = "youtu.be" /\ url.path = "/watch?v=" THEN [string |-> <<"watch">>]
    ELSE IF url.host = "youtu.be" /\ url.path = "/" /\ url.id # ""
         THEN [string |-> <<url.id>>]
    ELSE IF url.host = "youtu.be" /\ url.path = "/shorts/"
         THEN [string |-> <<"shorts/", url.id>>]
    ELSE IF url.path = "/shorts/" /\ url.id # "" THEN [string |-> <<url.id>>]
    ELSE Null

\* createJobSchema with no upper limit on maxClips.
createJobSchemaNoMax(body) ==
    /\ isValidYouTubeUrl(body.videoUrl)
    /\ body.options # Undefined =>
          /\ body.options.clipDuration # Undefined =>
                /\ body.options.clipDuration.number >= CLIP_CONFIG.minDuration
                /\ body.options.clipDuration.number <= CLIP_CONFIG.maxDuration
          /\ body.options.maxClips # Undefined => body.options.maxClips.number >= 1

\* createJobSchema.safeParse(body).success, for a body whose properties have the types
\* the schema names.
createJobSchema(body) ==
    /\ isValidYouTubeUrl(body.videoUrl)
    /\ body.options # Undefined =>
          /\ body.options.clipDuration # Undefined =>
                /\ body.options.clipDuration.number >= CLIP_CONFIG.minDuration
                /\ body.options.clipDuration.number <= CLIP_CONFIG.maxDuration
          /\ body.options.maxClips # Undefined =>
                /\ body.options.maxClips.number >= 1
                /\ body.options.maxClips.number <= 10

\* ------------------------------------------------------------------ initial state
IdleAct ==
    [pc |-> "idle", job |-> NoId, err |-> "", scenes |-> <<>>, idx |-> 0, clips |-> <<>>,
     failed |-> {}, lastProgress |-> 0, lastPercent |-> 0, titles |-> FALSE,
     videoFile |-> FALSE]     \* videoFile: the file at videoInfo.videoPath exists

NoReq == [pc |-> "none", id |-> NoId]
NoRet == [op |-> "none", job |-> NoId]
NoAnalysis == [pc |-> "none"]
NoTitleReq == [pc |-> "none"]
NoLayout == [pc |-> "none"]
NoFiles == [clip |-> Null, temp |-> Null]   \* neither <clipId>.mp4 nor <clipId>_temp.mp4 exists

Init ==
    /\ jobs = [j \in JobIds |-> Null]
    /\ clock = 0
    /\ busy = FALSE
    /\ act = [p \in Activations |-> IdleAct]
    /\ cancelReq = NoReq
    /\ ret = NoRet
    /\ analysis = NoAnalysis
    /\ files = [c \in ClipFiles |-> NoFiles]
    /\ titleReq = NoTitleReq
    /\ layout = NoLayout

\* ------------------------------------------------------------------ environment
\* Time passes.
Tick ==
    /\ clock < MaxClock
    /\ clock' = clock + 1
    /\ UNCHANGED <<jobs, busy, act, cancelReq, ret, analysis, files, titleReq, layout>>

\* POST /api/jobs/create with a valid body: queue.enqueue -> jobService.createJob.
Enqueue ==
    \E req \in Requests :
        \E id \in JobIds :
            /\ jobs[id] = Null
            /\ \A k \in JobIds : k < id => jobs[k] # Null
            /\ jobs' = [jobs EXCEPT ![id] = createJob(id, req, clock)]
            /\ UNCHANGED <<clock, busy, act, cancelReq, ret, analysis, files, titleReq, layout>>

\* POST /api/jobs/:id/cancel -> jobService.cancelJob: getJob, then the status test.
CancelRead ==
    \E id \in JobIds :
        /\ cancelReq.pc = "none"
        /\ cancelReq' = IF cancelJobAllowed(jobs, id)
                        THEN [pc |-> "update", id |-> id]
                        ELSE [pc |-> "false", id |-> id]
        /\ UNCHANGED <<jobs, clock, busy, act, ret, analysis, files, titleReq, layout>>

\* cancelJob: the UPDATE, then return true.
CancelWrite ==
    /\ cancelReq.pc = "update"
    /\ jobs' = cancelJobWrite(jobs, cancelReq.id, clock)
    /\ cancelReq' = [cancelReq EXCEPT !.pc = "true"]
    /\ UNCHANGED <<clock, busy, act, ret, analysis, files, titleReq, layout>>

\* The route answers (200, 404 or 409) and the request is over.
CancelRespond ==
    /\ cancelReq.pc \in {"true", "false"}
    /\ cancelReq' = NoReq
    /\ UNCHANGED <<jobs, clock, busy, act, ret, analysis, files, titleReq, layout>>

\* ------------------------------------------------------------------ VideoProcessor
Job(p) == act[p].job

Goto(p, pc) == act' = [act EXCEPT ![p].pc = pc]

\* An exception with message m leaves the try block: control is in the catch clause.
Throw(p, m) == act' = [act EXCEPT ![p].pc = "catch", ![p].err = m]

\* updateProgress(jobId, step, percentage, message) -> jobService.updateJobProgress.
updateProgress(s, id, step, percentage, message, now) ==
    updateJobProgress(s, id, Progress(step, percentage, message), now)

\* The download callback's mapping of yt-dlp's percentage to the job's 0-25%.
DownloadJobProgress(percentage) == RoundDiv(percentage * 25, 100)

DownloadMessage(percentage) ==
    IF percentage < 100 THEN "Downloading video..." ELSE "Download complete, processing..."

\* The clip callback without the clipIndex term.
ClipJobProgressNoIndex(n, clipIndex, percent) ==
    RoundDiv(6000 * n + 35 * percent, 100 * n)

\* The clip callback with every clip spanning all 35 points.
ClipJobProgressWholeRange(n, clipIndex, percent) ==
    RoundDiv(6000 * n + 3500 * clipIndex + 35 * percent * n, 100 * n)

\* The sum 60 + clipIndex * (35 / n) + (percent / 100) * (35 / n) is computed in doubles.
\* For n up to 10, clipIndex < n and percent in 0..100 the double has the integer part
\* and the side of the half of the exact sum, but for one tie, which it puts just below
\* the half: 60 + 5 * (35 / 6) + 0.4 * (35 / 6) is 91.49999999999999, not 91.5.
DoubleSumBelowTie(n, clipIndex, percent) == n = 6 /\ clipIndex = 5 /\ percent = 40

\* The clip callback's mapping of (clipIndex, percent) for n scenes: Math.round of the sum.
ClipJobProgress(n, clipIndex, percent) ==
    IF DoubleSumBelowTie(n, clipIndex, percent)
    THEN (6000 * n + 3500 * clipIndex + 35 * percent) \div (100 * n)
    ELSE RoundDiv(6000 * n + 3500 * clipIndex + 35 * percent, 100 * n)

\* processNextJob up to the return of queue.dequeue(): an interval tick or the call in
\* start().  Activations are interchangeable: a new one takes the lowest free slot.  Nothing of the worker process runs between the isQueueBusy test and the
\* assignment of isProcessing (no macrotask boundary), and no other process sees the flag.
Poll(p) ==
    /\ act[p].pc = "idle"
    /\ \A q \in Activations : q < p => act[q].pc # "idle"
    /\ ~isQueueBusy(busy)
    /\ \E d \in dequeue(busy, jobs) :
          /\ busy' = d.isProcessing
          /\ act' = IF d.job = NoId THEN act
                    ELSE [act EXCEPT ![p] = [IdleAct EXCEPT !.pc = "status", !.job = d.job]]
    /\ UNCHANGED <<jobs, clock, cancelReq, ret, analysis, files, titleReq, layout>>

\* await jobService.updateJobStatus(job.id, PROCESSING, {downloading, 0})
SetProcessing(p) ==
    /\ act[p].pc = "status"
    /\ \/ /\ jobs' = updateJobStatus(jobs, Job(p), JOB_STATUS.PROCESSING,
                                     Progress(PROCESSING_STEPS.DOWNLOADING, 0,
                                              "Downloading video..."), clock)
          /\ Goto(p, "getinfo")
       \/ /\ Throw(p, DbErrorMsg)
          /\ UNCHANGED jobs
    /\ UNCHANGED <<clock, busy, cancelReq, ret, analysis, files, titleReq, layout>>

\* downloadVideo: getVideoInfo (yt-dlp --dump-json) returns or throws.
GetVideoInfo(p) ==
    /\ act[p].pc = "getinfo"
    /\ \/ Goto(p, "ytdlp")
       \/ Throw(p, DownloadErrorMsg)
    /\ UNCHANGED <<jobs, clock, busy, cancelReq, ret, analysis, files, titleReq, layout>>

\* downloadWithProgress: one [download] line on yt-dlp's stdout.
DownloadLine(p) ==
    /\ act[p].pc = "ytdlp"
    /\ \E percentage \in DlPercents :
          IF percentage - act[p].lastProgress >= 1 \/ percentage >= 100
          THEN /\ act' = [act EXCEPT ![p].lastProgress = percentage]
               /\ jobs' = updateProgress(jobs, Job(p), PROCESSING_STEPS.DOWNLOADING,
                                         DownloadJobProgress(percentage),
                                         DownloadMessage(percentage), clock)
          ELSE UNCHANGED <<act, jobs, layout>>
    /\ UNCHANGED <<clock, busy, cancelReq, ret, analysis, files, titleReq, layout>>

\* downloadWithProgress: the [Merger] line, which yt-dlp prints once the downloads are over.
DownloadMerger(p) ==
    /\ act[p].pc = "ytdlp"
    /\ act[p].lastProgress >= 100
    /\ jobs' = updateProgress(jobs, Job(p), PROCESSING_STEPS.DOWNLOADING,
                              DownloadJobProgress(99), DownloadMessage(99), clock)
    /\ UNCHANGED <<act, clock, busy, cancelReq, ret, analysis, files, titleReq, layout>>

\* downloadWithProgress: yt-dlp exits.
DownloadClose(p) ==
    /\ act[p].pc = "ytdlp"
    /\ \/ /\ jobs' = updateProgress(jobs, Job(p), PROCESSING_STEPS.DOWNLOADING,
                                    DownloadJobProgress(100), DownloadMessage(100), clock)
          /\ Goto(p, "readdir")
       \/ /\ Throw(p, DownloadErrorMsg)
          /\ UNCHANGED jobs
    /\ UNCHANGED <<clock, busy, cancelReq, ret, analysis, files, titleReq, layout>>

\* downloadVideo: the downloaded file is looked up in the temp directory.
FindDownloaded(p) ==
    /\ act[p].pc = "readdir"
    /\ \/ act' = [act EXCEPT ![p].pc = "p25", ![p].videoFile = TRUE]
       \/ Throw(p, DownloadErrorMsg)
    /\ UNCHANGED <<jobs, clock, busy, cancelReq, ret, analysis, files, titleReq, layout>>

\* One of the awaited updateProgress calls between the stages.
ProgressWrite(p, at, step, percentage, message, next) ==
    /\ act[p].pc = at
    /\ \/ /\ jobs' = updateProgress(jobs, Job(p), step, percentage, message, clock)
          /\ Goto(p, next)
       \/ /\ Throw(p, DbErrorMsg)
          /\ UNCHANGED jobs
    /\ UNCHANGED <<clock, busy, cancelReq, ret, analysis, files, titleReq, layout>>

Progress25(p) ==
    ProgressWrite(p, "p25", PROCESSING_STEPS.ANALYZING, 25, "Analyzing video...", "analyze")

\* The sources behind the video URLs: what the detector reports and ffprobe's duration.
Videos ==
    { [timestamps |-> <<Sec(0), Sec(8), Sec(100), Sec(118)>>, duration |-> Sec(120)],
      [timestamps |-> <<Sec(110), Sec(118)>>, duration |-> Sec(120)] }

\* The maxClips a job may carry, and what analyzeVideo returns for each source and each
\* of them.
JobMaxClips == { recordToJob(createJob(1, req, 0)).options.maxClips.number : req \in Requests }

AnalyzedScenes ==
    [v \in Videos |-> [m \in JobMaxClips |-> analyzeVideo(v.timestamps, v.duration, m)]]

\* videoService.analyzeVideo(videoPath, job.options.maxClips || 5): the selected scenes,
\* or the exception of getMetadata (ffprobe) or of detectScenes (the detector).
AnalyzeVideo(p) ==
    /\ act[p].pc = "analyze"
    /\ \/ \E v \in Videos :
             LET given == getJob(jobs, Job(p)).options.maxClips
                 maxClips == IF given \in {Undefined, Num(0)} THEN DefaultMaxClips
                             ELSE given.number
             IN  act' = [act EXCEPT ![p].pc = "p45", ![p].scenes = AnalyzedScenes[v][maxClips]]
       \/ Throw(p, AnalyzeErrorMsg)
       \/ Throw(p, DetectErrorMsg)
    /\ UNCHANGED <<jobs, clock, busy, cancelReq, ret, analysis, files, titleReq, layout>>

\* The progress write after the analysis, with the step of the first stage.
Progress45Downloading(p) ==
    ProgressWrite(p, "p45", PROCESSING_STEPS.DOWNLOADING, 45, "Generating clip titles...",
                  "titles")

Progress45(p) ==
    ProgressWrite(p, "p45", PROCESSING_STEPS.TRANSCRIBING, 45, "Generating clip titles...",
                  "titles")

\* Step 2.5: titles when the API key is set and the call succeeds, none otherwise.
GenerateTitles(p) ==
    /\ act[p].pc = "titles"
    /\ \E ok \in BOOLEAN : act' = [act EXCEPT ![p].pc = "p50", ![p].titles = ok]
    /\ UNCHANGED <<jobs, clock, busy, cancelReq, ret, analysis, files, titleReq, layout>>

Progress50(p) ==
    ProgressWrite(p, "p50", PROCESSING_STEPS.TRANSCRIBING, 50, "Generating subtitles...",
                  IF getJob(jobs, Job(p)).options.includeSubtitles = Bool(TRUE) THEN "subs"
                  ELSE "p60")

\* Step 3: ensureJobDir, which may throw, then generateSubtitles, which returns a path or
\* (on any failure of its own) null; the path is passed on and changes nothing recorded.
GenerateSubtitles(p) ==
    /\ act[p].pc = "subs"
    /\ \/ Goto(p, "p60")
       \/ Throw(p, MkdirErrorMsg)
    /\ UNCHANGED <<jobs, clock, busy, cancelReq, ret, analysis, files, titleReq, layout>>

Progress60(p) ==
    ProgressWrite(p, "p60", PROCESSING_STEPS.GENERATING, 60, "Generating clips...", "mkdir")

\* Step 4: ensureJobDir before generateClips.
EnsureJobDir(p) ==
    /\ act[p].pc = "mkdir"
    /\ \/ Goto(p, "clips")
       \/ Throw(p, MkdirErrorMsg)
    /\ UNCHANGED <<jobs, clock, busy, cancelReq, ret, analysis, files, titleReq, layout>>

\* generateClips: ffmpeg reports progress on the clip being rendered (its timemark only grows).
ClipProgress(p) ==
    /\ act[p].pc = "clips"
    /\ \E percent \in ClipPercents :
          /\ percent >= act[p].lastPercent
          /\ act' = [act EXCEPT ![p].lastPercent = percent]
          /\ jobs' = updateProgress(jobs, Job(p), PROCESSING_STEPS.GENERATING,
                                    ClipJobProgress(Len(act[p].scenes), act[p].idx, percent),
                                    "Generating clip", clock)
    /\ UNCHANGED <<clock, busy, cancelReq, ret, analysis, files, titleReq, layout>>

\* generateClip's return value for scene number i (0-based), as the result records it.
Clip(scenes, i, titles) ==
    [id |-> i + 1, startTime |-> scenes[i + 1].startTime, endTime |-> scenes[i + 1].endTime,
     duration |-> scenes[i + 1].duration, score |-> scenes[i + 1].score, title |-> titles]

\* The loop body of generateClips with no try/catch around generateClip.
ClipEndNoCatch(p) ==
    /\ act[p].pc = "clips"
    /\ \/ act' = [act EXCEPT ![p].clips = Append(act[p].clips,
                                                  Clip(act[p].scenes, act[p].idx, act[p].titles)),
                              ![p].idx = act[p].idx + 1,
                              ![p].lastPercent = 0,
                              ![p].pc = IF act[p].idx + 1 = Len(act[p].scenes)
                                        THEN "complete" ELSE "clips"]
       \/ Throw(p, RenderErrorMsg)
    /\ UNCHANGED <<jobs, clock, busy, cancelReq, ret, analysis, files, titleReq, layout>>

\* generateClips, the loop body for scene idx: generateClip returns and the clip is
\* pushed, or it throws (ffmpeg or the thumbnail) and the failure is logged; then i++.
ClipEnd(p) ==
    /\ act[p].pc = "clips"
    /\ \E ok \in BOOLEAN :
          act' = [act EXCEPT ![p].clips = IF ok
                                          THEN Append(act[p].clips,
                                                      Clip(act[p].scenes, act[p].idx,
                                                           act[p].titles))
                                          ELSE act[p].clips,
                             ![p].failed = IF ok THEN act[p].failed
                                           ELSE act[p].failed \cup {act[p].idx + 1},
                             ![p].idx = act[p].idx + 1,
                             ![p].lastPercent = 0,
                             ![p].pc = IF act[p].idx + 1 = Len(act[p].scenes)
                                       THEN "complete" ELSE "clips"]
    /\ UNCHANGED <<jobs, clock, busy, cancelReq, ret, analysis, files, titleReq, layout>>

\* The end of the run treating an empty clip list as a failure.
CompleteJobRequiringClips(p) ==
    /\ act[p].pc = "complete"
    /\ \/ /\ act[p].clips # <<>>
          /\ jobs' = completeJob(jobs, Job(p), [clips |-> act[p].clips], clock)
          /\ Goto(p, "cleanup")
       \/ /\ act[p].clips = <<>>
          /\ Throw(p, "No clips generated")
          /\ UNCHANGED jobs
       \/ /\ Throw(p, DbErrorMsg)
          /\ UNCHANGED jobs
    /\ UNCHANGED <<clock, busy, cancelReq, ret, analysis, files, titleReq, layout>>

\* The end of the run with queue.complete right after completeJob.
CompleteJobSkippingCleanup(p) ==
    /\ act[p].pc = "complete"
    /\ \/ /\ jobs' = completeJob(jobs, Job(p), [clips |-> act[p].clips], clock)
          /\ Goto(p, "qcomplete")
       \/ /\ Throw(p, DbErrorMsg)
          /\ UNCHANGED jobs
    /\ UNCHANGED <<clock, busy, cancelReq, ret, analysis, files, titleReq, layout>>

\* await jobService.completeJob(job.id, result)
CompleteJob(p) ==
    /\ act[p].pc = "complete"
    /\ \/ /\ jobs' = completeJob(jobs, Job(p), [clips |-> act[p].clips], clock)
          /\ Goto(p, "cleanup")
       \/ /\ Throw(p, DbErrorMsg)
          /\ UNCHANGED jobs
    /\ UNCHANGED <<clock, busy, cancelReq, ret, analysis, files, titleReq, layout>>

\* cleanup without its try/catch: a failed unlink throws into processNextJob's catch.
CleanupThrowing(p) ==
    /\ act[p].pc = "cleanup"
    /\ \/ act' = [act EXCEPT ![p].pc = "qcomplete", ![p].videoFile = FALSE]
       \/ Throw(p, "ENOENT: unlink")
    /\ UNCHANGED <<jobs, clock, busy, cancelReq, ret, analysis, files, titleReq, layout>>

\* await youtubeService.cleanup(videoPath): fs.unlink removes the file, or it fails and
\* the failure is logged and swallowed; cleanup returns either way.
Cleanup(p) ==
    /\ act[p].pc = "cleanup"
    /\ \/ act' = [act EXCEPT ![p].pc = "qcomplete", ![p].videoFile = FALSE]
       \/ Goto(p, "qcomplete")
    /\ UNCHANGED <<jobs, clock, busy, cancelReq, ret, analysis, files, titleReq, layout>>

\* await queue.complete(job.id): the activation is over.
QueueComplete(p) ==
    /\ act[p].pc = "qcomplete"
    /\ busy' = complete(busy, Job(p))
    /\ act' = [act EXCEPT ![p] = IdleAct]
    /\ UNCHANGED <<jobs, clock, cancelReq, ret, analysis, files, titleReq, layout>>

\* catch: await jobService.failJob(job.id, {message, code}); when failJob itself throws,
\* the activation's promise rejects and queue.fail is never reached.
FailMessage(m) == IF m = "" THEN "Unknown error occurred" ELSE m

\* The catch clause with queue.fail in a finally: the queue is released although failJob
\* threw.
FailJobThenRelease(p) ==
    /\ act[p].pc = "catch"
    /\ \/ jobs' = failJob(jobs, Job(p),
                          [message |-> FailMessage(act[p].err), code |-> "PROCESSING_ERROR"],
                          clock)
       \/ UNCHANGED jobs
    /\ Goto(p, "qfail")
    /\ UNCHANGED <<clock, busy, cancelReq, ret, analysis, files, titleReq, layout>>

\* The catch clause with queue.fail before failJob.
FailJobAfterRelease(p) ==
    \/ /\ act[p].pc = "catch"
       /\ busy' = fail(busy, Job(p))
       /\ Goto(p, "failJob")
       /\ UNCHANGED <<jobs, clock, cancelReq, ret, analysis, files, titleReq, layout>>
    \/ /\ act[p].pc = "failJob"
       /\ jobs' = failJob(jobs, Job(p),
                          [message |-> FailMessage(act[p].err), code |-> "PROCESSING_ERROR"],
                          clock)
       /\ act' = [act EXCEPT ![p] = IdleAct]
       /\ UNCHANGED <<clock, busy, cancelReq, ret, analysis, files, titleReq, layout>>

FailJob(p) ==
    /\ act[p].pc = "catch"
    /\ \/ /\ jobs' = failJob(jobs, Job(p),
                             [message |-> FailMessage(act[p].err), code |-> "PROCESSING_ERROR"],
                             clock)
          /\ Goto(p, "qfail")
       \/ /\ Goto(p, "rejected")
          /\ UNCHANGED jobs
    /\ UNCHANGED <<clock, busy, cancelReq, ret, analysis, files, titleReq, layout>>

\* await queue.fail(job.id): the activation is over.
QueueFail(p) ==
    /\ act[p].pc = "qfail"
    /\ busy' = fail(busy, Job(p))
    /\ act' = [act EXCEPT ![p] = IdleAct]
    /\ UNCHANGED <<jobs, clock, cancelReq, ret, analysis, files, titleReq, layout>>

Download(p) ==
    GetVideoInfo(p) \/ DownloadLine(p) \/ DownloadMerger(p) \/ DownloadClose(p)
        \/ FindDownloaded(p)

GenerateClips(p) == EnsureJobDir(p) \/ ClipProgress(p) \/ ClipEnd(p)

processNextJob(p) ==
    \/ Poll(p)
    \/ SetProcessing(p)
    \/ Download(p)
    \/ Progress25(p)
    \/ AnalyzeVideo(p)
    \/ Progress45(p)
    \/ GenerateTitles(p)
    \/ Progress50(p)
    \/ GenerateSubtitles(p)
    \/ Progress60(p)
    \/ GenerateClips(p)
    \/ CompleteJob(p)
    \/ Cleanup(p)
    \/ QueueComplete(p)
    \/ FailJob(p)
    \/ QueueFail(p)

Worker == \E p \in Activations : processNextJob(p)

\* The worker process with the web server's create and cancel requests.  Time stands
\* still here: the worker never reads a timestamp, and rows of equal created_at are
\* dequeued in rowid order, the order that growing creation times impose as well.
Next == Enqueue \/ CancelRead \/ CancelWrite \/ CancelRespond \/ Worker

Spec == Init /\ [][Next]_vars

\* setInterval keeps polling, and every external call returns or throws: yt-dlp exits
\* and each ffmpeg render ends.  A cancel request, once begun, runs to its response.
Fairness ==
    /\ WF_vars(CancelWrite)
    /\ WF_vars(CancelRespond)
    /\ \A p \in Activations :
          /\ WF_vars(processNextJob(p))
          /\ WF_vars(DownloadClose(p))
          /\ WF_vars(ClipEnd(p))

FairSpec == Spec /\ Fairness

\* ------------------------------------------------------------------ the queue and the store, called directly
\* A caller of the SimpleQueue and JobService methods, one call at a time, in any order.
SampleResult ==
    [clips |-> << [id |-> 1, startTime |-> Sec(6), endTime |-> Sec(66), duration |-> Sec(60),
                   score |-> Score(85, 100), title |-> FALSE] >>]
SampleError == [message |-> DbErrorMsg, code |-> "PROCESSING_ERROR"]

CallDequeue ==
    /\ \E d \in dequeue(busy, jobs) :
          /\ busy' = d.isProcessing
          /\ ret' = [op |-> "dequeue", job |-> d.job]
    /\ UNCHANGED <<jobs, clock, act, cancelReq, analysis, files, titleReq, layout>>

CallComplete ==
    /\ \E id \in JobIds : busy' = complete(busy, id)
    /\ ret' = [op |-> "complete", job |-> NoId]
    /\ UNCHANGED <<jobs, clock, act, cancelReq, analysis, files, titleReq, layout>>

CallFail ==
    /\ \E id \in JobIds : busy' = fail(busy, id)
    /\ ret' = [op |-> "fail", job |-> NoId]
    /\ UNCHANGED <<jobs, clock, act, cancelReq, analysis, files, titleReq, layout>>

CallUpdateJobStatus ==
    /\ \E id \in JobIds :
          jobs' = updateJobStatus(jobs, id, JOB_STATUS.PROCESSING,
                                  Progress(PROCESSING_STEPS.DOWNLOADING, 0,
                                           "Downloading video..."), clock)
    /\ UNCHANGED <<clock, busy, act, cancelReq, ret, analysis, files, titleReq, layout>>

CallCompleteJob ==
    /\ \E id \in JobIds : jobs' = completeJob(jobs, id, SampleResult, clock)
    /\ UNCHANGED <<clock, busy, act, cancelReq, ret, analysis, files, titleReq, layout>>

CallFailJob ==
    /\ \E id \in JobIds : jobs' = failJob(jobs, id, SampleError, clock)
    /\ UNCHANGED <<clock, busy, act, cancelReq, ret, analysis, files, titleReq, layout>>

StoreNext ==
    \/ Tick \/ Enqueue \/ CancelRead \/ CancelWrite \/ CancelRespond
    \/ CallDequeue \/ CallComplete \/ CallFail
    \/ CallUpdateJobStatus \/ CallCompleteJob \/ CallFailJob

StoreSpec == Init /\ [][StoreNext]_vars

\* ------------------------------------------------------------------ the scene analysis, called directly
\* Sources: their durations (ffprobe's format.duration || 0) and the times at which the
\* detector may report a scene change.
SourceDurations == {Sec(0), Sec(30), Sec(120), Sec(600)}

TimePoints == {Sec(0), Sec(8), Sec(30), Sec(100), Sec(110), Sec(118)}

\* The elements of a set of numbers in ascending order, as ffmpeg prints pts_time.
RECURSIVE Ascending(_)
Ascending(S) ==
    IF S = {} THEN <<>>
    ELSE LET m == CHOOSE x \in S : \A y \in S : x <= y
         IN  <<m>> \o Ascending(S \ {m})

TimestampLists(duration) ==
    { Ascending(S) : S \in { T \in SUBSET { t \in TimePoints : t <= duration } :
                                Cardinality(T) <= MaxTimestamps } }

\* Scenes a caller may hand to scoreScenes and to selectBestScenes.
SceneStarts == {Sec(0), Sec(17), Sec(20), Sec(21)}

UnscoredScenes ==
    { Scene(st, st + d, Score(1, 2)) : st \in SceneStarts, d \in {Sec(15), Sec(60), Sec(130)} }

ScoredScenes ==
    { Scene(st, st + Sec(15), sc) : st \in SceneStarts \ {Sec(20)},
                                    sc \in {Score(3, 10), Score(1, 2)} }

SeqsUpTo(S, n) == UNION { [1..k -> S] : k \in 0..n }

AnalysisCall(pc, timestamps, duration, maxClips, scenes) ==
    [pc |-> pc, last |-> "none", timestamps |-> timestamps, duration |-> duration,
     maxClips |-> maxClips, scenes |-> scenes, err |-> ""]

\* The calls: analyzeVideo(path, maxClips), createFallbackScenes(duration, count),
\* scoreScenes(scenes, duration) and selectBestScenes(scenes, maxClips).
AnalysisCalls(maxCount, maxScenes) ==
    UNION { { AnalysisCall("metadata", ts, d, m, <<>>) :
                  ts \in TimestampLists(d), m \in 1..maxCount } : d \in SourceDurations }
    \cup { AnalysisCall("fallback", <<>>, d, m, <<>>) : d \in SourceDurations, m \in 1..maxCount }
    \cup { AnalysisCall("score", <<>>, d, m, sc) :
              d \in SourceDurations, m \in 1..maxCount, sc \in SeqsUpTo(UnscoredScenes, maxScenes) }
    \cup { AnalysisCall("select", <<>>, Sec(120), m, sc) :
              m \in 0..maxCount, sc \in SeqsUpTo(ScoredScenes, maxScenes) }

SceneInit ==
    /\ jobs = [j \in JobIds |-> Null]
    /\ clock = 0
    /\ busy = FALSE
    /\ act = [p \in Activations |-> IdleAct]
    /\ cancelReq = NoReq
    /\ ret = NoRet
    /\ analysis \in AnalysisCalls(MaxCount, MaxScenes)
    /\ files = [c \in ClipFiles |-> NoFiles]
    /\ titleReq = NoTitleReq
    /\ layout = NoLayout

\* analyzeVideo: await this.getMetadata(videoPath)
GetMetadata ==
    /\ analysis.pc = "metadata"
    /\ \/ analysis' = [analysis EXCEPT !.pc = "detect"]
       \/ analysis' = [analysis EXCEPT !.pc = "thrown", !.err = AnalyzeErrorMsg]
    /\ UNCHANGED <<jobs, clock, busy, act, cancelReq, ret, files, titleReq, layout>>

\* analyzeVideo: await this.detectScenes(videoPath), which rethrows the detector's error;
\* then the test scenes.length < maxClips.
DetectScenes ==
    /\ analysis.pc = "detect"
    /\ \/ LET scenes == detectScenes(analysis.timestamps, analysis.duration)
          IN  analysis' = [analysis EXCEPT !.scenes = scenes, !.last = "detectScenes",
                                           !.pc = IF Len(scenes) < analysis.maxClips
                                                  THEN "fallback" ELSE "score"]
       \/ analysis' = [analysis EXCEPT !.pc = "thrown", !.err = DetectErrorMsg]
    /\ UNCHANGED <<jobs, clock, busy, act, cancelReq, ret, files, titleReq, layout>>

CreateFallbackScenes ==
    /\ analysis.pc = "fallback"
    /\ analysis' = [analysis EXCEPT
                       !.scenes = createFallbackScenes(analysis.duration, analysis.maxClips),
                       !.last = "createFallbackScenes", !.pc = "score"]
    /\ UNCHANGED <<jobs, clock, busy, act, cancelReq, ret, files, titleReq, layout>>

ScoreScenes ==
    /\ analysis.pc = "score"
    /\ analysis' = [analysis EXCEPT !.scenes = scoreScenes(analysis.scenes, analysis.duration),
                                    !.last = "scoreScenes", !.pc = "select"]
    /\ UNCHANGED <<jobs, clock, busy, act, cancelReq, ret, files, titleReq, layout>>

SelectBestScenes ==
    /\ analysis.pc = "select"
    /\ analysis' = [analysis EXCEPT
                       !.scenes = selectBestScenes(analysis.scenes, analysis.maxClips),
                       !.last = "selectBestScenes", !.pc = "returned"]
    /\ UNCHANGED <<jobs, clock, busy, act, cancelReq, ret, files, titleReq, layout>>

SceneNext ==
    GetMetadata \/ DetectScenes \/ CreateFallbackScenes \/ ScoreScenes \/ SelectBestScenes

SceneSpec == SceneInit /\ [][SceneNext]_vars

\* ------------------------------------------------------------------ title overlays of rendered clips
\* A video file is what its frames show: the set of the texts drawn into them (the
\* source video shows none; a text drawn twice at the same place shows once).  An encode
\* with the drawtext filters of a title draws that title over the frames of its input.
Titles == {"First title", "Second title"}

NoTitle == ""

Video(overlays) == [overlays |-> overlays]

drawtext(video, title) ==
    IF title = NoTitle THEN video ELSE Video(video.overlays \cup {title})

\* generateClip: the clip of a scene is cut from the source video, with the title's
\* overlay when a title is given, and written to <clipId>.mp4.
RenderClip ==
    /\ \E c \in ClipFiles, title \in Titles \cup {NoTitle} :
          /\ files[c] = NoFiles
          /\ \A k \in ClipFiles : k < c => files[k] # NoFiles
          /\ files' = [files EXCEPT ![c].clip = drawtext(Video({}), title)]
    /\ UNCHANGED <<jobs, clock, busy, act, cancelReq, ret, analysis, titleReq, layout>>

\* POST /api/jobs/:id/clips/:clipId/regenerate with a valid title for a clip of the
\* job's result: addTitleToClip(clipPath, title) begins.  old remembers the file at
\* clipPath when the call began (history only: no step reads it).
AddTitleToClip ==
    /\ titleReq.pc = "none"
    /\ \E c \in ClipFiles, title \in Titles :
          /\ titleReq' = [pc |-> "probe", clip |-> c, title |-> title,
                           old |-> files[c].clip]
    /\ UNCHANGED <<jobs, clock, busy, act, cancelReq, ret, analysis, files, layout>>

\* addTitleToClip: ffprobe(clipPath) resolves for a file that exists, or rejects.
TitleProbe ==
    /\ titleReq.pc = "probe"
    /\ \/ /\ files[titleReq.clip].clip # Null
          /\ titleReq' = [titleReq EXCEPT !.pc = "encode"]
       \/ titleReq' = [titleReq EXCEPT !.pc = "thrown"]
    /\ UNCHANGED <<jobs, clock, busy, act, cancelReq, ret, analysis, files, layout>>

\* addTitleToClip: ffmpeg(clipPath) with the title's filters writes tempPath, or fails.
TitleEncode ==
    /\ titleReq.pc = "encode"
    /\ \/ /\ files' = [files EXCEPT ![titleReq.clip].temp =
                                         drawtext(files[titleReq.clip].clip, titleReq.title)]
          /\ titleReq' = [titleReq EXCEPT !.pc = "unlink"]
       \/ /\ titleReq' = [titleReq EXCEPT !.pc = "thrown"]
          /\ UNCHANGED files
    /\ UNCHANGED <<jobs, clock, busy, act, cancelReq, ret, analysis, layout>>

\* addTitleToClip: await fs.unlink(clipPath)
TitleUnlink ==
    /\ titleReq.pc = "unlink"
    /\ \/ /\ files' = [files EXCEPT ![titleReq.clip].clip = Null]
          /\ titleReq' = [titleReq EXCEPT !.pc = "rename"]
       \/ /\ titleReq' = [titleReq EXCEPT !.pc = "thrown"]
          /\ UNCHANGED files
    /\ UNCHANGED <<jobs, clock, busy, act, cancelReq, ret, analysis, layout>>

\* addTitleToClip: await fs.rename(tempPath, clipPath), then it returns.
TitleRename ==
    /\ titleReq.pc = "rename"
    /\ \/ /\ files' = [files EXCEPT ![titleReq.clip].clip = files[titleReq.clip].temp,
                                      ![titleReq.clip].temp = Null]
          /\ titleReq' = [titleReq EXCEPT !.pc = "returned"]
       \/ /\ titleReq' = [titleReq EXCEPT !.pc = "thrown"]
          /\ UNCHANGED files
    /\ UNCHANGED <<jobs, clock, busy, act, cancelReq, ret, analysis, layout>>

\* The route answers (200 or 500) and the request is over.
TitleRespond ==
    /\ titleReq.pc \in {"returned", "thrown"}
    /\ titleReq' = NoTitleReq
    /\ UNCHANGED <<jobs, clock, busy, act, cancelReq, ret, analysis, files, layout>>

TitleNext ==
    \/ RenderClip \/ AddTitleToClip \/ TitleProbe \/ TitleEncode \/ TitleUnlink
    \/ TitleRename \/ TitleRespond

TitleSpec == Init /\ [][TitleNext]_vars

\* ------------------------------------------------------------------ the regenerate route
\* The ClipInfo the result records for the rendered file of clip c: its id names the
\* file, its title is the text burned into it (none when generated without titles).
ClipInfo(c) ==
    [id |-> c, startTime |-> Sec(10 * c), endTime |-> Sec(10 * c + 30), duration |-> Sec(30),
     score |-> Score(85, 100),
     title |-> IF files[c].clip.overlays = {} THEN NoTitle
               ELSE CHOOSE t \in files[c].clip.overlays : TRUE]

\* The clips (uuids) that some job's result names.
OwnedClips ==
    {c \in ClipFiles : \E j \in JobIds :
        /\ jobs[j] # Null
        /\ jobs[j].result # Null
        /\ \E i \in 1..Len(jobs[j].result.clips) : jobs[j].result.clips[i].id = c}

\* The start of a run: the worker writes status processing to the job it dequeued.
StartRun ==
    /\ \E id \in JobIds :
          /\ jobs[id] # Null
          /\ jobs[id].status = JOB_STATUS.QUEUED
          /\ \A k \in JobIds : jobs[k] # Null => jobs[k].status # JOB_STATUS.PROCESSING
          /\ jobs' = updateJobStatus(jobs, id, JOB_STATUS.PROCESSING,
                                     Progress(PROCESSING_STEPS.DOWNLOADING, 0,
                                              "Downloading video..."), clock)
    /\ UNCHANGED <<clock, busy, act, cancelReq, ret, analysis, files, titleReq, layout>>

\* The end of a run: the worker builds the result from the clips it rendered, in the
\* order it rendered them, and completes the job.
CompleteRun ==
    /\ \E id \in JobIds :
          /\ jobs[id] # Null
          /\ jobs[id].status = JOB_STATUS.PROCESSING
          /\ \E n \in 0..MaxClipFiles :
                /\ \A c \in 1..n : files[c].clip # Null /\ c \notin OwnedClips
                /\ jobs' = completeJob(jobs, id, [clips |-> [c \in 1..n |-> ClipInfo(c)]],
                                       clock)
    /\ UNCHANGED <<clock, busy, act, cancelReq, ret, analysis, files, titleReq, layout>>

\* Bodies of the regenerate requests: a title, or none.
RegenerateBodies == Titles \cup {NoTitle}

\* POST regenerate that looks for the job only, not for its result and the clip in it.
RegenerateAnyClip ==
    /\ titleReq.pc = "none"
    /\ \E jobId \in JobIds, clipId \in ClipFiles, title \in RegenerateBodies :
          titleReq' =
              IF title = NoTitle
              THEN [pc |-> "rejected", code |-> 400, job |-> jobId, clip |-> clipId]
              ELSE IF jobs[jobId] = Null
              THEN [pc |-> "rejected", code |-> 404, job |-> jobId, clip |-> clipId]
              ELSE [pc |-> "probe", clip |-> clipId, title |-> title,
                    old |-> files[clipId].clip, job |-> jobId]
    /\ UNCHANGED <<jobs, clock, busy, act, cancelReq, ret, analysis, files, layout>>

\* POST regenerate, up to the call of addTitleToClip: the title is validated, the job is
\* read and the clip is looked up among the clips of its result.
Regenerate ==
    /\ titleReq.pc = "none"
    /\ \E jobId \in JobIds, clipId \in ClipFiles, title \in RegenerateBodies :
          titleReq' =
              IF title = NoTitle
              THEN [pc |-> "rejected", code |-> 400, job |-> jobId, clip |-> clipId]
              ELSE IF jobs[jobId] = Null \/ jobs[jobId].result = Null
              THEN [pc |-> "rejected", code |-> 404, job |-> jobId, clip |-> clipId]
              ELSE IF ~ \E i \in 1..Len(jobs[jobId].result.clips) :
                            jobs[jobId].result.clips[i].id = clipId
              THEN [pc |-> "rejected", code |-> 404, job |-> jobId, clip |-> clipId]
              ELSE [pc |-> "probe", clip |-> clipId, title |-> title,
                    old |-> files[clipId].clip, job |-> jobId]
    /\ UNCHANGED <<jobs, clock, busy, act, cancelReq, ret, analysis, files, layout>>

\* POST regenerate: await jobService.updateClipTitle(jobId, clipId, title), or it rejects.
UpdateClipTitle ==
    /\ titleReq.pc = "returned"
    /\ \/ /\ jobs' = updateClipTitle(jobs, titleReq.job, titleReq.clip, titleReq.title)
          /\ titleReq' = [titleReq EXCEPT !.pc = "updated"]
       \/ /\ titleReq' = [titleReq EXCEPT !.pc = "thrown"]
          /\ UNCHANGED jobs
    /\ UNCHANGED <<clock, busy, act, cancelReq, ret, analysis, files, layout>>

\* POST regenerate answers: 200, the 400 or 404 of a rejected request, or the 500 of the
\* catch block.
RegenerateRespond ==
    /\ titleReq.pc \in {"updated", "thrown", "rejected"}
    /\ titleReq' = NoTitleReq
    /\ UNCHANGED <<jobs, clock, busy, act, cancelReq, ret, analysis, files, layout>>

RegenerateNext ==
    \/ Enqueue \/ StartRun \/ RenderClip \/ CompleteRun
    \/ Regenerate \/ TitleProbe \/ TitleEncode \/ TitleUnlink \/ TitleRename
    \/ UpdateClipTitle \/ RegenerateRespond

RegenerateSpec == Init /\ [][RegenerateNext]_vars

\* ------------------------------------------------------------------ the title layout, called directly
\* A string is the sequence of its characters.  The space is character 0; the letters of
\* the word at position i of a title are all character i, so that a character names the
\* word it came from.
Space == 0

TitleCharsPerLine == 18     \* buildTitleFilters: splitTitleIntoLines(title, 18)
MaxTitleLines == 3          \* lines.slice(0, 3)

\* str.split(' '): the runs between the spaces, empty runs included; words are the runs
\* before position i.
RECURSIVE splitFrom(_, _, _)
splitFrom(str, i, words) ==
    LET spaces == {k \in i..Len(str) : str[k] = Space}
    IN  IF spaces = {} THEN Append(words, SubSeq(str, i, Len(str)))
        ELSE LET next == CHOOSE k \in spaces : \A m \in spaces : k <= m
             IN  splitFrom(str, next + 1, Append(words, SubSeq(str, i, next - 1)))

split(str) == splitFrom(str, 1, <<>>)

\* arr.slice(0, n)
slice(arr, n) == SubSeq(arr, 1, Min(n, Len(arr)))

\* The loop of splitTitleIntoLines that forgets the word that did not fit.
RECURSIVE splitTitleLoopDropping(_, _, _, _, _)
splitTitleLoopDropping(words, i, currentLine, lines, maxCharsPerLine) ==
    IF i > Len(words)
    THEN IF currentLine # <<>> THEN Append(lines, currentLine) ELSE lines
    ELSE LET word == words[i]
             testLine == IF currentLine # <<>> THEN currentLine \o <<Space>> \o word
                         ELSE word
         IN  IF Len(testLine) <= maxCharsPerLine
             THEN splitTitleLoopDropping(words, i + 1, testLine, lines, maxCharsPerLine)
             ELSE splitTitleLoopDropping(words, i + 1, <<>>,
                      IF currentLine # <<>> THEN Append(lines, currentLine) ELSE lines,
                      maxCharsPerLine)

\* splitTitleIntoLines, the loop over the words and the push of the last line: the lines
\* from words[i] on, with currentLine being built and lines already pushed.
RECURSIVE splitTitleLoop(_, _, _, _, _)
splitTitleLoop(words, i, currentLine, lines, maxCharsPerLine) ==
    IF i > Len(words)
    THEN IF currentLine # <<>> THEN Append(lines, currentLine) ELSE lines
    ELSE LET word == words[i]
             testLine == IF currentLine # <<>> THEN currentLine \o <<Space>> \o word
                         ELSE word
         IN  IF Len(testLine) <= maxCharsPerLine
             THEN splitTitleLoop(words, i + 1, testLine, lines, maxCharsPerLine)
             ELSE splitTitleLoop(words, i + 1, word,
                      IF currentLine # <<>> THEN Append(lines, currentLine) ELSE lines,
                      maxCharsPerLine)

\* splitTitleIntoLines with no slice at the end.
splitTitleIntoLinesUncapped(title, maxCharsPerLine) ==
    IF Len(title) <= maxCharsPerLine THEN <<title>>
    ELSE splitTitleLoop(split(title), 1, <<>>, <<>>, maxCharsPerLine)

splitTitleIntoLines(title, maxCharsPerLine) ==
    IF Len(title) <= maxCharsPerLine THEN <<title>>
    ELSE slice(splitTitleLoop(split(title), 1, <<>>, <<>>, maxCharsPerLine), MaxTitleLines)

\* The titles the layout is called with: up to MaxWords words, of the lengths below (the
\* empty word stands between two spaces in a row), joined by single spaces; and the
\* ten words of "This Is A Very Long Title For A Short Video".
MaxWords == 5

WordLengths == {0, 1, 9, 19}

RECURSIVE TitleOf(_, _)
TitleOf(lengths, i) ==
    IF i > Len(lengths) THEN <<>>
    ELSE (IF i = 1 THEN <<>> ELSE <<Space>>) \o [k \in 1..lengths[i] |-> i]
         \o TitleOf(lengths, i + 1)

ExampleTitle == TitleOf(<<4, 2, 1, 4, 4, 5, 3, 1, 5, 5>>, 1)

TitleInputs ==
    {TitleOf(lengths, 1) : lengths \in SeqsUpTo(WordLengths, MaxWords)} \cup {ExampleTitle}

LayoutInit ==
    /\ jobs = [j \in JobIds |-> Null]
    /\ clock = 0
    /\ busy = FALSE
    /\ act = [p \in Activations |-> IdleAct]
    /\ cancelReq = NoReq
    /\ ret = NoRet
    /\ analysis = NoAnalysis
    /\ files = [c \in ClipFiles |-> NoFiles]
    /\ titleReq = NoTitleReq
    /\ layout \in {[pc |-> "call", title |-> t] : t \in TitleInputs}

\* buildTitleFilters: const lines = this.splitTitleIntoLines(title, 18)
SplitTitleIntoLines ==
    /\ layout.pc = "call"
    /\ layout' = [pc |-> "lines", title |-> layout.title,
                  lines |-> splitTitleIntoLines(layout.title, TitleCharsPerLine)]
    /\ UNCHANGED <<jobs, clock, busy, act, cancelReq, ret, analysis, files, titleReq>>

LayoutNext == SplitTitleIntoLines

LayoutSpec == LayoutInit /\ [][LayoutNext]_vars

\* ------------------------------------------------------------------ the create route and getJob
\* Bodies of the create requests: URLs the patterns accept and URLs they do not, options
\* left out, or given with each property left out, in range or out of range.
CreateUrls ==
    { Url("https", "www.youtube.com", "/watch?v=", "abc123"),
      Url("https", "vimeo.com", "/", "abc123"),
      Url("https", "www.youtube.com", "/watch?v=", "") }

CreateOptions ==
    { JobOptions(d, m, i) : d \in {Undefined, Num(Sec(45))},
                            m \in {Undefined, Num(0), Num(10), Num(11)},
                            i \in {Undefined, Bool(TRUE), Bool(FALSE)} }

CreateBodies ==
    { [videoUrl |-> u, options |-> o] : u \in CreateUrls, o \in CreateOptions \cup {Undefined} }

\* POST /api/jobs/create: a body that fails createJobSchema is answered 400; a valid one
\* is enqueued (queue.enqueue -> jobService.createJob(videoUrl, options || {})) and
\* answered 201, or 500 when the insert throws.
PostCreate ==
    /\ \E body \in CreateBodies :
          IF ~ createJobSchema(body)
          THEN /\ ret' = [op |-> "create", status |-> 400, body |-> body, job |-> NoId]
               /\ UNCHANGED jobs
          ELSE LET options == IF body.options = Undefined
                              THEN JobOptions(Undefined, Undefined, Undefined)
                              ELSE body.options
               IN  \/ \E id \in JobIds :
                        /\ jobs[id] = Null
                        /\ \A k \in JobIds : k < id => jobs[k] # Null
                        /\ jobs' = [jobs EXCEPT ![id] =
                                        createJob(id, [videoUrl |-> body.videoUrl,
                                                       options |-> options], clock)]
                        /\ ret' = [op |-> "create", status |-> 201, body |-> body,
                                   job |-> id, options |-> jobOptions(options)]
                   \/ /\ ret' = [op |-> "create", status |-> 500, body |-> body,
                                  job |-> NoId]
                      /\ UNCHANGED jobs
    /\ UNCHANGED <<clock, busy, act, cancelReq, analysis, files, titleReq, layout>>

\* jobService.getJob(jobId), called by whoever holds the id.
CallGetJob ==
    /\ \E id \in JobIds :
          ret' = [op |-> "getJob", job |-> id, value |-> getJob(jobs, id)]
    /\ UNCHANGED <<jobs, clock, busy, act, cancelReq, analysis, files, titleReq, layout>>

CreateNext == PostCreate \/ CallGetJob

CreateSpec == Init /\ [][CreateNext]_vars

\* ------------------------------------------------------------------ the clip progress, called directly
\* ffmpeg reports the timemark of the clip being rendered; createProgressHandler turns it
\* into a percent of the clip's duration and generateClips passes it on, with the clip's
\* index, to the worker's callback, which stores the job's percentage.
MaxTimemark == 120

MaxClipsLimit == 10         \* createJobSchema: maxClips at most 10

ClipDurations == {3, 100}   \* in the unit of the timemark

\* createProgressHandler: Math.round(Math.min((currentTime / duration) * 100, 100))
createProgressHandler(duration, currentTime) ==
    IF currentTime >= duration THEN 100 ELSE RoundDiv(100 * currentTime, duration)

ProgressInit ==
    /\ jobs = [j \in JobIds |-> Null]
    /\ clock = 0
    /\ busy = FALSE
    /\ act = [p \in Activations |-> IdleAct]
    /\ cancelReq = NoReq
    /\ analysis = NoAnalysis
    /\ files = [c \in ClipFiles |-> NoFiles]
    /\ titleReq = NoTitleReq
    /\ layout = NoLayout
    /\ ret \in {[op |-> "progress", n |-> n, clipIndex |-> i, duration |-> d, timemark |-> t] :
                    n \in 1..MaxClipsLimit, i \in 0..(MaxClipsLimit - 1), d \in ClipDurations,
                    t \in 0..MaxTimemark}
    /\ ret.clipIndex < ret.n

\* The 'progress' event of ffmpeg while clip number clipIndex of n is rendered.
FfmpegProgress ==
    /\ ret.op = "progress"
    /\ LET percent == createProgressHandler(ret.duration, ret.timemark)
       IN  ret' = [op |-> "updateProgress", n |-> ret.n, clipIndex |-> ret.clipIndex,
                   percent |-> percent,
                   percentage |-> ClipJobProgress(ret.n, ret.clipIndex, percent)]
    /\ UNCHANGED <<jobs, clock, busy, act, cancelReq, analysis, files, titleReq, layout>>

ProgressNext == FfmpegProgress

ProgressSpec == ProgressInit /\ [][ProgressNext]_vars

\* ------------------------------------------------------------------ downloadVideo, called directly
\* The references downloadVideo is called with.
DownloadUrls ==
    { Url(scheme, host, path, id) :
          scheme \in {"https", "ftp"},
          host \in {"www.youtube.com", "youtu.be", "vimeo.com"},
          path \in {"/watch?v=", "/", "/shorts/"},
          id \in {"abc123", ""} }

\* An Error message is the sequence of the pieces of its template string.
InvalidUrlMsg == <<"Invalid YouTube URL">>

DownloadFailedMsg(cause) == <<"Failed to download video: ", cause>>

\* The failures inside downloadVideo's try block, by the call that raises them.
DownloadCauses ==
    [getVideoInfo |-> "Failed to get video information: Command failed: yt-dlp",
     downloadWithProgress |-> "yt-dlp exited with code 1",
     readdir |-> "Downloaded file not found"]

DownloadCall(pc, videoUrl, calls, err) ==
    [op |-> "downloadVideo", pc |-> pc, videoUrl |-> videoUrl, calls |-> calls, err |-> err]

DownloadInit ==
    /\ jobs = [j \in JobIds |-> Null]
    /\ clock = 0
    /\ busy = FALSE
    /\ act = [p \in Activations |-> IdleAct]
    /\ cancelReq = NoReq
    /\ analysis = NoAnalysis
    /\ files = [c \in ClipFiles |-> NoFiles]
    /\ titleReq = NoTitleReq
    /\ layout = NoLayout
    /\ ret \in {DownloadCall("call", url, <<>>, <<>>) : url \in DownloadUrls}

\* downloadVideo with the test of the video id left out.
CallDownloadVideoUnvalidated ==
    /\ ret.op = "downloadVideo" /\ ret.pc = "call"
    /\ ret' = [ret EXCEPT !.pc = "getVideoInfo"]
    /\ UNCHANGED <<jobs, clock, busy, act, cancelReq, analysis, files, titleReq, layout>>

\* downloadVideo: extractVideoId(videoUrl) and the throw when it returns null.
CallDownloadVideo ==
    /\ ret.op = "downloadVideo" /\ ret.pc = "call"
    /\ ret' = IF extractVideoId(ret.videoUrl) = Null
              THEN [ret EXCEPT !.pc = "thrown", !.err = InvalidUrlMsg]
              ELSE [ret EXCEPT !.pc = "getVideoInfo"]
    /\ UNCHANGED <<jobs, clock, busy, act, cancelReq, analysis, files, titleReq, layout>>

\* One of the awaited calls of the try block: it returns, or it throws and the catch
\* clause throws 'Failed to download video: ' with the message of what it caught.
DownloadStep(at, next) ==
    /\ ret.op = "downloadVideo" /\ ret.pc = at
    /\ \/ ret' = [ret EXCEPT !.pc = next, !.calls = Append(@, at)]
       \/ ret' = [ret EXCEPT !.pc = "thrown", !.calls = Append(@, at),
                             !.err = DownloadFailedMsg(DownloadCauses[at])]
    /\ UNCHANGED <<jobs, clock, busy, act, cancelReq, analysis, files, titleReq, layout>>

\* await this.getVideoInfo(videoUrl): yt-dlp --dump-json
CallGetVideoInfo == DownloadStep("getVideoInfo", "downloadWithProgress")

\* await this.downloadWithProgress(...): spawn('yt-dlp', args)
CallDownloadWithProgress == DownloadStep("downloadWithProgress", "readdir")

\* fs.readdir and the search of the downloaded file
CallReaddir == DownloadStep("readdir", "returned")

DownloadNext ==
    CallDownloadVideo \/ CallGetVideoInfo \/ CallDownloadWithProgress \/ CallReaddir

DownloadSpec == DownloadInit /\ [][DownloadNext]_vars

\* ------------------------------------------------------------------ properties
Exists(j) == jobs[j] # Null

Status(j) == jobs[j].status

Terminal == {JOB_STATUS.COMPLETED, JOB_STATUS.FAILED, JOB_STATUS.CANCELLED}

\* The activations holding a job that dequeue returned and that no queue.complete or
\* queue.fail has released (a rejected activation never releases its job).
InFlight == { p \in Activations : act[p].pc # "idle" }

\* C1: at most one job is in flight, whatever the startup call, the interval ticks,
\* the enqueue requests and the cancel requests do and however many jobs are queued.
C1_AtMostOneInFlight == Cardinality(InFlight) <= 1

\* A job is in flight while another one is still queued and untouched.
C1_Witness ==
    /\ InFlight # {}
    /\ \E j \in JobIds :
          /\ Exists(j)
          /\ Status(j) = JOB_STATUS.QUEUED
          /\ \A p \in Activations : act[p].job # j

\* C2: on an idle queue with a queued job, dequeue() returns a job; a dequeue() that
\* follows it with no complete/fail in between returns null, also when more jobs are
\* queued; and dequeue() on a busy queue returns null whatever the store holds and leaves
\* the store alone.
C2_Step ==
    CallDequeue =>
        /\ (~busy /\ getNextQueuedJob(jobs) # {}) =>
              (ret'.job \in getNextQueuedJob(jobs) /\ busy')
        /\ (ret.op = "dequeue" /\ ret.job # NoId) => ret'.job = NoId
        /\ busy => (ret'.job = NoId /\ jobs' = jobs /\ busy')

C2_DequeueMutualExclusion == [][C2_Step]_vars

\* The second of two successive dequeue() calls returned null although a job is queued.
C2_Witness ==
    /\ ret = [op |-> "dequeue", job |-> NoId]
    /\ busy
    /\ getNextQueuedJob(jobs) # {}

\* C3: once a job's stored status is completed, failed or cancelled, no later operation
\* changes it.
C3_TerminalStatusIsFinal ==
    [][\A j \in JobIds :
          (Exists(j) /\ Status(j) \in Terminal) => jobs'[j].status = jobs[j].status]_vars

\* C4: cancelJob on a completed or failed job returns false and changes nothing of the
\* record; on a queued job it returns true and sets the status to cancelled (and, with it,
\* only updatedAt).
C4_Step ==
    \A id \in JobIds :
        /\ (cancelReq.pc = "none" /\ cancelReq'.pc # "none" /\ cancelReq'.id = id) =>
              /\ jobs' = jobs
              /\ (Exists(id) /\ Status(id) \in {JOB_STATUS.COMPLETED, JOB_STATUS.FAILED})
                    => cancelReq'.pc = "false"
              /\ (Exists(id) /\ Status(id) = JOB_STATUS.QUEUED) => cancelReq'.pc = "update"
        /\ (cancelReq.pc = "update" /\ cancelReq.id = id /\ cancelReq'.pc # "update") =>
              /\ cancelReq'.pc = "true"
              /\ jobs'[id].status = JOB_STATUS.CANCELLED
              /\ jobs' = [jobs EXCEPT ![id].status = JOB_STATUS.CANCELLED,
                                      ![id].updatedAt = clock]
        /\ (cancelReq.pc \in {"true", "false"} /\ cancelReq'.pc = "none") => jobs' = jobs

C4_CancelJob == [][C4_Step]_vars

\* cancelJob has returned false for a completed job that was last written at an earlier time.
C4_Witness ==
    /\ cancelReq.pc = "false"
    /\ cancelReq.id \in JobIds
    /\ Exists(cancelReq.id)
    /\ Status(cancelReq.id) = JOB_STATUS.COMPLETED
    /\ jobs[cancelReq.id].updatedAt < clock

\* C5: no job record has both a result and an error.
C5_NeverResultAndError ==
    \A j \in JobIds : Exists(j) => ~(jobs[j].result # Null /\ jobs[j].error # Null)

\* One job has failed in its run and another one has completed.
C5_Witness ==
    \E j, k \in JobIds :
        /\ Exists(j) /\ jobs[j].error # Null
        /\ Exists(k) /\ jobs[k].result # Null

\* C6: a job record has a result only if its status is completed, and an error only if
\* its status is failed.
C6_ResultAndErrorMatchStatus ==
    \A j \in JobIds :
        Exists(j) =>
            /\ jobs[j].result # Null => Status(j) = JOB_STATUS.COMPLETED
            /\ jobs[j].error # Null => Status(j) = JOB_STATUS.FAILED

\* C7, as claimed: within a run, the stored percentage never decreases from one write to
\* the next, the write of the failing run included.
C7_ProgressNeverDecreases ==
    [][\A p \in Activations :
          (act[p].pc # "idle" /\ act[p].job = act'[p].job) =>
              jobs'[Job(p)].progress.percentage >= jobs[Job(p)].progress.percentage]_vars

\* C7, amended: within a run, the stored percentage never decreases from one write to the
\* next, except for failJob's write, which sets step error and percentage 0.
C7_ProgressNeverDecreasesUntilFailure ==
    [][\A p \in Activations :
          (act[p].pc # "idle" /\ act[p].job = act'[p].job) =>
              \/ jobs'[Job(p)].progress.percentage >= jobs[Job(p)].progress.percentage
              \/ /\ act[p].pc = "catch"
                 /\ jobs'[Job(p)].progress = Progress(PROCESSING_STEPS.ERROR, 0,
                                                      FailMessage(act[p].err))]_vars

\* The second clip of a run is being rendered and its callback has written its progress.
C7_Witness ==
    \E p \in Activations :
        /\ act[p].pc = "clips"
        /\ act[p].idx = 1
        /\ act[p].lastPercent > 0
        /\ jobs[Job(p)].progress.percentage > 78

\* C8: when a stage throws, no later stage runs: the next thing the activation does is
\* failJob, which stores status failed and the error {the exception's message,
\* PROCESSING_ERROR}, and then queue.fail, which clears the busy flag.
C8_Step ==
    \A p \in Activations :
        /\ (act[p].pc = "catch" /\ act'[p].pc # "catch") =>
              /\ act'[p].pc = "qfail"
              /\ jobs'[Job(p)].status = JOB_STATUS.FAILED
              /\ jobs'[Job(p)].error = [message |-> act[p].err, code |-> "PROCESSING_ERROR"]
        /\ (act[p].pc = "qfail" /\ act'[p].pc # "qfail") => (act'[p].pc = "idle" /\ ~busy')

C8_StageFailureFailsJobAndFreesQueue == [][C8_Step]_vars

\* C9: whenever the queue is busy, it is idle again later.
C9_BusyLeadsToIdle == busy ~> ~busy

\* C10: a job that is enqueued and never cancelled is eventually dequeued, and the status
\* of a job changes only from queued to processing and from processing to completed unless
\* a cancellation or a failure of a stage intervenes.
C10_Held(j) == \E p \in Activations : act[p].pc # "idle" /\ act[p].job = j

C10_StatusStep ==
    \A j \in JobIds :
        (Exists(j) /\ jobs'[j].status # jobs[j].status) =>
            \/ <<jobs[j].status, jobs'[j].status>> \in
                  { <<JOB_STATUS.QUEUED, JOB_STATUS.PROCESSING>>,
                    <<JOB_STATUS.PROCESSING, JOB_STATUS.COMPLETED>> }
            \/ jobs'[j].status \in {JOB_STATUS.CANCELLED, JOB_STATUS.FAILED}
            \/ jobs[j].status = JOB_STATUS.CANCELLED

C10_EnqueuedIsEventuallyDequeued ==
    /\ \A j \in JobIds :
          (Exists(j) /\ Status(j) = JOB_STATUS.QUEUED)
              ~> (C10_Held(j) \/ (Exists(j) /\ Status(j) # JOB_STATUS.QUEUED))
    /\ [][C10_StatusStep]_vars

\* The queued rows.
Queued == { j \in JobIds : Exists(j) /\ Status(j) = JOB_STATUS.QUEUED }

\* C11: dequeue on an idle queue returns the queued job with the earliest creation time,
\* and null when no job is queued; among the queued jobs, the one created first is the
\* one dequeued, so that jobs leave the queue in the order they were created.
C11_Step ==
    (CallDequeue /\ ~busy) =>
        /\ Queued = {} => ret'.job = NoId
        /\ Queued # {} =>
              /\ ret'.job \in Queued
              /\ \A k \in Queued : jobs[ret'.job].createdAt <= jobs[k].createdAt
              /\ \A k \in Queued : ret'.job <= k

C11_AdmissionIsFifo == [][C11_Step]_vars

\* dequeue returned the older of two queued jobs that were created at different times.
C11_Witness ==
    /\ ret.op = "dequeue"
    /\ ret.job = 1
    /\ Queued = {1, 2}
    /\ jobs[1].createdAt < jobs[2].createdAt

\* C12: generateClips attempts every scene in order, never throws on a render failure,
\* and returns exactly the clips of the scenes that rendered, in the order of the scenes,
\* whichever subset of the renders fails.
C12_GenerateClipsSkipsFailedRenders ==
    \A p \in Activations :
        /\ act[p].err # RenderErrorMsg
        /\ act[p].pc \in {"clips", "complete"} =>
              /\ act[p].idx <= Len(act[p].scenes)
              /\ act[p].pc = "complete" => act[p].idx = Len(act[p].scenes)
              /\ act[p].failed \subseteq 1..act[p].idx
              /\ Len(act[p].clips) = act[p].idx - Cardinality(act[p].failed)
              /\ \A k \in 1..Len(act[p].clips) :
                    /\ act[p].clips[k].id \in (1..act[p].idx) \ act[p].failed
                    /\ act[p].clips[k] =
                          Clip(act[p].scenes, act[p].clips[k].id - 1, act[p].titles)
                    /\ k > 1 => act[p].clips[k - 1].id < act[p].clips[k].id

\* generateClips is about to return: the first of two renders failed, the second did not.
C12_Witness ==
    \E p \in Activations :
        /\ act[p].pc = "complete"
        /\ Len(act[p].scenes) = 2
        /\ act[p].failed = {1}
        /\ Len(act[p].clips) = 1

\* C13: when every render of a job fails, generateClips still returns, and completeJob
\* then stores status completed with a result whose clip list is empty; no job is ever
\* failed with a render's error.
C13_Step ==
    \A p \in Activations :
        /\ (act[p].pc = "clips" /\ act'[p] # act[p]) => act'[p].pc \in {"clips", "complete"}
        /\ (act[p].pc = "complete" /\ act[p].clips = <<>> /\ act'[p].pc = "cleanup") =>
              /\ jobs'[Job(p)].status = JOB_STATUS.COMPLETED
              /\ jobs'[Job(p)].result.clips = <<>>
              /\ jobs'[Job(p)].error = jobs[Job(p)].error
        /\ (act[p].pc = "complete" /\ act'[p].pc = "catch") => act'[p].err = DbErrorMsg

C13_AllRendersFailedStillCompletes == [][C13_Step]_vars

\* A job is completed with an empty clip list although two scenes were selected.
C13_Witness ==
    \E p \in Activations :
        /\ act[p].pc = "cleanup"
        /\ act[p].failed = {1, 2}
        /\ Status(Job(p)) = JOB_STATUS.COMPLETED
        /\ jobs[Job(p)].result.clips = <<>>

C15_SelectedScenesSortedAndSpaced ==
    analysis.last = "selectBestScenes" =>
        \A i, k \in 1..Len(analysis.scenes) :
            i < k =>
                /\ analysis.scenes[i].startTime <= analysis.scenes[k].startTime
                /\ ~(analysis.scenes[i].startTime < analysis.scenes[k].endTime
                       /\ analysis.scenes[k].startTime < analysis.scenes[i].endTime)
                /\ analysis.scenes[k].startTime - analysis.scenes[i].endTime
                      >= CLIP_CONFIG.minTimeBetweenClips

\* selectBestScenes returned two scenes that lie six seconds apart.
C15_Witness ==
    /\ analysis.last = "selectBestScenes"
    /\ Len(analysis.scenes) = 2
    /\ analysis.scenes[2].startTime - analysis.scenes[1].endTime = Sec(6)

C17_FallbackScenesWellFormed ==
    analysis.last = "createFallbackScenes" =>
        /\ Len(analysis.scenes) = analysis.maxClips
        /\ \A i \in 1..Len(analysis.scenes) :
              /\ analysis.scenes[i].duration = CLIP_CONFIG.defaultDuration
              /\ analysis.scenes[i].startTime >= 0
              /\ analysis.scenes[i].endTime <= analysis.duration
        /\ \A i \in 1..(Len(analysis.scenes) - 1) :
              /\ analysis.scenes[i].startTime < analysis.scenes[i + 1].startTime
              /\ analysis.scenes[i].endTime <= analysis.scenes[i + 1].startTime

\* C18: an error of the detector during analyzeVideo does not fail the job: no activation
\* is in its catch clause because of it and no job is stored failed with it.
C18_DetectorErrorFailsSoft ==
    /\ \A p \in Activations : ~(act[p].pc = "catch" /\ act[p].err = DetectErrorMsg)
    /\ \A j \in JobIds :
          (Exists(j) /\ jobs[j].error # Null) => jobs[j].error.message # DetectErrorMsg

\* C19: every scene that detectScenes produces has a duration within
\* [minDuration, maxDuration] = [15, 60] seconds.
C19_DetectedScenesWithinDurationBounds ==
    analysis.last = "detectScenes" =>
        \A i \in 1..Len(analysis.scenes) :
            /\ analysis.scenes[i].duration >= CLIP_CONFIG.minDuration
            /\ analysis.scenes[i].duration <= CLIP_CONFIG.maxDuration

\* C20: when addTitleToClip returns, the overlay text in the clip file is exactly the
\* title of that call: nothing of an earlier call or of the original render remains.
C20_TitleReplacesEarlierOverlays ==
    titleReq.pc = "returned" => files[titleReq.clip].clip = Video({titleReq.title})

\* C21: addTitleToClip replaces the clip atomically: at every point of a call on an
\* existing clip, clipPath holds a file that is either the render the call found there
\* or the new render with the title, and a call that fails leaves the render it found.
C21_TitleReplacementIsAtomic ==
    (titleReq.pc # "none" /\ titleReq.old # Null) =>
        /\ files[titleReq.clip].clip
               \in {titleReq.old, drawtext(titleReq.old, titleReq.title)}
        /\ titleReq.pc = "thrown" => files[titleReq.clip].clip = titleReq.old

\* C22: updateClipTitle(jobId, clipId, newTitle), as the regenerate route calls it,
\* changes only the title of the clip with that id in the job's stored result: the other
\* clips, the other fields of that clip, the ids, the number and the order of the clips
\* and every other job stay as they were.
C22_Step ==
    (titleReq.pc = "returned" /\ titleReq'.pc = "updated") =>
        LET j == titleReq.job
            old == jobs[j].result.clips
            new == jobs'[j].result.clips
        IN  /\ \A k \in JobIds \ {j} : jobs'[k] = jobs[k]
            /\ jobs' = [jobs EXCEPT ![j].result.clips = new]
            /\ Len(new) = Len(old)
            /\ \A i \in 1..Len(old) :
                  new[i] = IF old[i].id = titleReq.clip
                           THEN [old[i] EXCEPT !.title = titleReq.title]
                           ELSE old[i]

C22_UpdateClipTitleChangesOnlyTheTitle == [][C22_Step]_vars

\* A regenerate request has updated the title of the second of two clips: the first clip
\* keeps its other title.
C22_Witness ==
    /\ titleReq.pc = "updated"
    /\ titleReq.clip = 2
    /\ Len(jobs[titleReq.job].result.clips) = 2
    /\ jobs[titleReq.job].result.clips[2].title = titleReq.title
    /\ jobs[titleReq.job].result.clips[1].title \notin {titleReq.title, NoTitle}

\* The characters of str that belong to the word at position i of the title.
CharsOfWord(str, i) == Cardinality({k \in 1..Len(str) : str[k] = i})

\* The words of a string: what stands between its spaces, the empty runs left out.
WordSequence(str) == SelectSeq(split(str), LAMBDA w : w # <<>>)

\* lines.join(' ')
RECURSIVE JoinLines(_, _)
JoinLines(lines, i) ==
    IF i > Len(lines) THEN <<>>
    ELSE (IF i = 1 THEN <<>> ELSE <<Space>>) \o lines[i] \o JoinLines(lines, i + 1)

\* C23: splitTitleIntoLines(title, 18) returns at most 3 lines; every word of the title
\* is wholly inside a line or not in it at all; and a line of more than 18 characters is
\* one single word.
C23_LinesCappedAndWordsWhole ==
    layout.pc = "lines" =>
        /\ Len(layout.lines) <= MaxTitleLines
        /\ \A n \in 1..Len(layout.lines) :
              LET line == layout.lines[n]
              IN  /\ \A i \in 1..Len(layout.title) :
                        CharsOfWord(line, i) \in {0, CharsOfWord(layout.title, i)}
                  /\ Len(line) > TitleCharsPerLine =>
                        \A k \in 1..Len(line) : line[k] # Space

\* A title is laid out on three lines, one of them a single word of more than 18
\* characters, another one holding two words.
C23_Witness ==
    /\ layout.pc = "lines"
    /\ Len(layout.lines) = MaxTitleLines
    /\ \E n \in 1..Len(layout.lines) : Len(layout.lines[n]) > TitleCharsPerLine
    /\ \E n \in 1..Len(layout.lines) : Len(WordSequence(layout.lines[n])) = 2

\* C24 as claimed: for a title of words separated by single spaces, the lines of
\* splitTitleIntoLines(title, 18) joined by single spaces have the word sequence of the
\* title.
C24_RejoinedLinesAreTheTitle ==
    (layout.pc = "lines" /\ \A k \in 1..Len(split(layout.title)) :
                                split(layout.title)[k] # <<>>) =>
        WordSequence(JoinLines(layout.lines, 1)) = WordSequence(layout.title)

\* C24 as amended: the joined lines have the word sequence of the title when the words
\* pack into at most three lines; for a longer title they have the words of the first
\* three lines only, a prefix of the title's word sequence.
C24_RejoinedLinesArePrefixOfTheTitle ==
    layout.pc = "lines" =>
        LET joined == WordSequence(JoinLines(layout.lines, 1))
            words == WordSequence(layout.title)
        IN  /\ Len(joined) <= Len(words)
            /\ joined = SubSeq(words, 1, Len(joined))
            /\ Len(splitTitleLoop(split(layout.title), 1, <<>>, <<>>, TitleCharsPerLine))
                    <= MaxTitleLines
                 => joined = words

\* "This Is A Very Long Title For A Short Video" is laid out on three lines that join to
\* its ten words.
C24_Witness ==
    /\ layout.pc = "lines"
    /\ layout.title = ExampleTitle
    /\ Len(layout.lines) = 3
    /\ Len(WordSequence(JoinLines(layout.lines, 1))) = 10

\* C25: getJob on the id of a job just created returns options that read the same,
\* property by property, as the options createJob returned: what the request gave, 5
\* for maxClips and true for includeSubtitles where it gave none.
C25_Step ==
    (ret.op = "create" /\ ret.status = 201 /\ ret'.op = "getJob" /\ ret'.job = ret.job) =>
        LET given == ret.body.options
            loaded == ret'.value.options
        IN  /\ \A i \in 1..Len(OptionKeys) :
                  loaded[OptionKeys[i]] = ret.options[OptionKeys[i]]
            /\ loaded.maxClips =
                  IF given = Undefined \/ given.maxClips = Undefined THEN Num(5)
                  ELSE given.maxClips
            /\ loaded.includeSubtitles =
                  IF given = Undefined \/ given.includeSubtitles = Undefined THEN Bool(TRUE)
                  ELSE given.includeSubtitles

C25_OptionsRoundTrip == [][C25_Step]_vars

\* getJob has returned a job created with maxClips 10 and includeSubtitles false and
\* no clipDuration: the options read 10 and false.
C25_Witness ==
    /\ ret.op = "getJob"
    /\ ret.value # Null
    /\ ret.value.options = JobOptions(Undefined, Num(10), Bool(FALSE))

\* C26: a create request whose URL matches none of the accepted patterns, or whose
\* maxClips is below 1 or above 10, is answered 400 and changes nothing: no job row is
\* created, the queue's flag and the worker's activations stay as they were.
C26_Step ==
    LET body == ret'.body
        invalid == \/ ~ isValidYouTubeUrl(body.videoUrl)
                   \/ /\ body.options # Undefined
                      /\ body.options.maxClips # Undefined
                      /\ \/ body.options.maxClips.number < 1
                         \/ body.options.maxClips.number > 10
    IN  (ret'.op = "create" /\ invalid) =>
            /\ ret'.status = 400
            /\ jobs' = jobs
            /\ busy' = busy
            /\ act' = act

C26_InvalidRequestIsRejected == [][C26_Step]_vars

\* A request with maxClips 11 and an accepted URL has been answered 400 while the job of
\* an earlier request is in the table.
C26_Witness ==
    /\ ret.op = "create"
    /\ ret.status = 400
    /\ isValidYouTubeUrl(ret.body.videoUrl)
    /\ ret.body.options # Undefined
    /\ ret.body.options.maxClips = Num(11)
    /\ jobs[1] # Null
    /\ jobs[2] = Null

\* The place of a step in the order of the stages (error has none).
StepRank(step) ==
    CASE step = PROCESSING_STEPS.DOWNLOADING -> 1
      [] step = PROCESSING_STEPS.ANALYZING -> 2
      [] step = PROCESSING_STEPS.TRANSCRIBING -> 3
      [] step = PROCESSING_STEPS.GENERATING -> 4
      [] step = PROCESSING_STEPS.DONE -> 5
      [] OTHER -> 0

\* C27: whenever the stored progress.step of a job changes, it moves forward along
\* downloading, analyzing, transcribing, generating, done, or it becomes error, which is
\* stored together with the status failed; no step follows error.
C27_Step ==
    \A j \in JobIds :
        (Exists(j) /\ jobs'[j].progress.step # jobs[j].progress.step) =>
            IF jobs'[j].progress.step = PROCESSING_STEPS.ERROR
            THEN jobs'[j].status = JOB_STATUS.FAILED
            ELSE /\ jobs[j].progress.step # PROCESSING_STEPS.ERROR
                 /\ StepRank(jobs[j].progress.step) < StepRank(jobs'[j].progress.step)

C27_StepsMoveForward == [][C27_Step]_vars

\* A job has gone through every stage: it is completed with step done.
C27_Witness ==
    \E j \in JobIds :
        /\ Exists(j)
        /\ jobs[j].progress.step = PROCESSING_STEPS.DONE
        /\ jobs[j].status = JOB_STATUS.COMPLETED
        /\ Len(jobs[j].result.clips) = 2

\* C28: for n scenes, clip index i < n and transcode percent p, the percentage stored in
\* the generating stage is 60 + i*(35/n) + (p/100)*(35/n) rounded to a nearest integer,
\* so that clip i covers the i-th of n equal slices of the 35 points, and it lies
\* between 60 and 95.
C28_ClipPercentage ==
    ret.op = "updateProgress" =>
        LET n == ret.n
            x100n == 6000 * n + 3500 * ret.clipIndex + 35 * ret.percent
            v == ret.percentage
        IN  /\ ret.percent >= 0 /\ ret.percent <= 100
            /\ 2 * x100n >= (2 * v - 1) * 100 * n
            /\ 2 * x100n <= (2 * v + 1) * 100 * n
            /\ v >= 60 /\ v <= 95
            /\ v >= 60 + (35 * ret.clipIndex) \div n
            /\ v <= 60 + (35 * (ret.clipIndex + 1) + n - 1) \div n

\* The last of three clips is fully rendered: 95 is stored; and the second of three is
\* halfway: 60 + 11.67 + 5.83 rounds to 78.
C28_Witness ==
    /\ ret.op = "updateProgress"
    /\ ret.n = 3
    /\ \/ ret.clipIndex = 2 /\ ret.percent = 100 /\ ret.percentage = 95
       \/ ret.clipIndex = 1 /\ ret.percent = 50 /\ ret.percentage = 78

\* C29: a failure inside the optional stages (the AI titles of step 2.5, the subtitles of
\* step 3) never fails the job: no run leaves one of these stages for the catch clause.
C29_Step ==
    \A p \in Activations :
        act[p].pc \in {"titles", "subs"} => act'[p].pc # "catch"

C29_OptionalStagesNeverFailTheJob == [][C29_Step]_vars

\* What neither completeJob nor failJob may touch: the other rows, and the id, the source
\* reference, the options and the creation time of the row they write.
C30_Frame(id) ==
    /\ \A k \in JobIds \ {id} : jobs'[k] = jobs[k]
    /\ jobs'[id].id = jobs[id].id
    /\ jobs'[id].videoUrl = jobs[id].videoUrl
    /\ jobs'[id].options = jobs[id].options
    /\ jobs'[id].createdAt = jobs[id].createdAt

\* C30: completeJob(id, result) sets status completed, attaches the result and sets
\* progress to step done, 100%; failJob(id, error) sets status failed, attaches the error
\* and sets progress to step error, 0%; neither changes the id, the source reference,
\* the options or the creation time of the job (and a call for an id with no row changes
\* nothing).
C30_Step ==
    /\ CallCompleteJob =>
          \/ jobs' = jobs /\ \E id \in JobIds : ~ Exists(id)
          \/ \E id \in JobIds :
                /\ Exists(id)
                /\ jobs'[id].status = JOB_STATUS.COMPLETED
                /\ jobs'[id].result = SampleResult
                /\ jobs'[id].progress.step = PROCESSING_STEPS.DONE
                /\ jobs'[id].progress.percentage = 100
                /\ C30_Frame(id)
    /\ CallFailJob =>
          \/ jobs' = jobs /\ \E id \in JobIds : ~ Exists(id)
          \/ \E id \in JobIds :
                /\ Exists(id)
                /\ jobs'[id].status = JOB_STATUS.FAILED
                /\ jobs'[id].error = SampleError
                /\ jobs'[id].progress.step = PROCESSING_STEPS.ERROR
                /\ jobs'[id].progress.percentage = 0
                /\ C30_Frame(id)

C30_CompleteJobAndFailJob == [][C30_Step]_vars

\* Of two jobs created at time 0, one was completed and the other failed at time 1.
C30_Witness ==
    \E j, k \in JobIds :
        /\ Exists(j) /\ Exists(k)
        /\ Status(j) = JOB_STATUS.COMPLETED /\ jobs[j].result = SampleResult
        /\ Status(k) = JOB_STATUS.FAILED /\ jobs[k].error = SampleError
        /\ jobs[j].createdAt = 0 /\ jobs[j].updatedAt = 1
        /\ jobs[k].createdAt = 0 /\ jobs[k].updatedAt = 1

\* C31: createJob stores a new job under an id no row had before, with status queued,
\* progress {step downloading, percentage 0, message "Job queued"}, no result and no
\* error; enqueue only creates this record: the other rows and the queue's busy flag are
\* as they were.
C31_Step ==
    Enqueue =>
        /\ busy' = busy
        /\ \E id \in JobIds :
              /\ ~ Exists(id)
              /\ jobs'[id] # Null
              /\ jobs'[id].id = id
              /\ jobs'[id].status = JOB_STATUS.QUEUED
              /\ jobs'[id].progress = [step |-> "downloading", percentage |-> 0,
                                       message |-> "Job queued"]
              /\ jobs'[id].result = Null
              /\ jobs'[id].error = Null
              /\ \A k \in JobIds \ {id} : jobs'[k] = jobs[k]

C31_EnqueueOnlyCreatesTheRecord == [][C31_Step]_vars

\* A job was enqueued while the queue was busy with an older job: the new row is queued
\* and untouched, and the queue is still busy.
C31_Witness ==
    /\ busy
    /\ ret = [op |-> "dequeue", job |-> 1]
    /\ Exists(2)
    /\ Status(2) = JOB_STATUS.QUEUED
    /\ jobs[2].createdAt > jobs[1].createdAt
    /\ jobs[2].updatedAt = jobs[2].createdAt

\* C32: complete(id) and fail(id) leave the queue idle, whatever id is passed and whether
\* or not the queue was busy, and they change no job record; dequeue() on an idle queue
\* with no queued job returns nothing and leaves the queue idle (and the store alone).
C32_Step ==
    /\ (CallComplete \/ CallFail) => (~ busy' /\ jobs' = jobs)
    /\ (CallDequeue /\ ~ busy /\ Queued = {}) =>
          (ret'.job = NoId /\ ~ busy' /\ jobs' = jobs)

C32_CompleteAndFailReleaseUnconditionally == [][C32_Step]_vars

\* complete() has released the queue while the row of the job that was dequeued is still
\* queued, since nothing wrote to it, and the other id has no row at all.
C32_Witness ==
    /\ ret.op = "complete"
    /\ ~ busy
    /\ Exists(1) /\ Status(1) = JOB_STATUS.QUEUED
    /\ ~ Exists(2)

\* C33: when completeJob has returned, the next thing the run does is cleanup of the
\* downloaded file, with the job stored as completed and the queue still busy, whether or
\* not renders of the run failed; cleanup returns whether the unlink removed the file or
\* failed, without writing to the store and without releasing the queue; and the step
\* after cleanup is queue.complete, which releases the queue.
C33_Step ==
    \A p \in Activations :
        /\ (act[p].pc = "complete" /\ act'[p].pc \notin {"complete", "catch"}) =>
              /\ act'[p].pc = "cleanup"
              /\ act'[p].videoFile
              /\ jobs'[Job(p)].status = JOB_STATUS.COMPLETED
              /\ busy'
        /\ (act[p].pc = "cleanup" /\ act'[p].pc # "cleanup") =>
              /\ act'[p].pc = "qcomplete"
              /\ jobs' = jobs
              /\ busy /\ busy'
        /\ (act[p].pc = "qcomplete" /\ act'[p].pc # "qcomplete") =>
              /\ act'[p].pc = "idle"
              /\ ~ busy'
              /\ jobs' = jobs

C33_CleanupFollowsCompletion == [][C33_Step]_vars

\* The unlink of a run whose first render failed has failed itself: the file is still
\* there, the job is stored as completed and queue.complete is what the run does next.
C33_Witness ==
    \E p \in Activations :
        /\ act[p].pc = "qcomplete"
        /\ act[p].videoFile
        /\ 1 \in act[p].failed
        /\ Status(Job(p)) = JOB_STATUS.COMPLETED

\* C34: in analyzeVideo, the fallback scenes go into the selection with the score 0.3
\* that createFallbackScenes gave them: scoring leaves the score of a fallback scene as
\* it is, so that a detected scene among the candidates would outrank it.  Stated for
\* the calls in which the detector did report scene changes.
C34_Step ==
    (analysis.pc = "score" /\ analysis.last = "createFallbackScenes"
                           /\ analysis.timestamps # <<>>
                           /\ analysis'.pc = "select") =>
        /\ Len(analysis'.scenes) = Len(analysis.scenes)
        /\ \A i \in 1..Len(analysis'.scenes) : analysis'.scenes[i].score = Score(3, 10)

C34_FallbackScenesKeepLowScore == [][C34_Step]_vars

\* C35: downloadVideo tests the reference before it calls anything: for a reference from
\* which extractVideoId extracts nothing, the call throws 'Invalid YouTube URL' having
\* called neither getVideoInfo nor the downloader; every failure after the test has a
\* message that starts with 'Failed to download video', which the first message does not.
C35_InvalidReferenceFailsBeforeDownload ==
    (ret.op = "downloadVideo" /\ ret.pc # "call") =>
        /\ extractVideoId(ret.videoUrl) = Null =>
              /\ ret.pc = "thrown"
              /\ ret.err = <<"Invalid YouTube URL">>
              /\ ret.calls = <<>>
        /\ (ret.pc = "thrown" /\ extractVideoId(ret.videoUrl) # Null) =>
              /\ ret.calls # <<>>
              /\ ret.err[1] = "Failed to download video: "
        /\ ret.pc = "thrown" =>
              (ret.err[1] = "Failed to download video: ") = (ret.calls # <<>>)

\* The call for a shorts path with no id has thrown before any external call was made.
C35_Witness ==
    /\ ret.op = "downloadVideo"
    /\ ret.videoUrl = Url("https", "www.youtube.com", "/shorts/", "")
    /\ ret.pc = "thrown"
    /\ ret.calls = <<>>

\* C36: each job is dequeued by the worker at most once.  dequeue returns only a job
\* that is stored queued and held by no activation; and a job that an activation holds,
\* or whose status is no longer queued, is never again both queued and held by nobody,
\* whatever the run does (completes, fails, rejects) and whatever cancel requests
\* interleave: so no later dequeue returns it.
C36_Step ==
    \A j \in JobIds :
        /\ (\E p \in Activations : act[p].pc = "idle" /\ act'[p].pc # "idle" /\ act'[p].job = j)
              => (Exists(j) /\ Status(j) = JOB_STATUS.QUEUED /\ ~ C10_Held(j))
        /\ (Exists(j) /\ (Status(j) # JOB_STATUS.QUEUED \/ C10_Held(j)))
              => \/ jobs'[j].status # JOB_STATUS.QUEUED
                 \/ \E p \in Activations : act'[p].pc # "idle" /\ act'[p].job = j

C36_DequeuedAtMostOnce == [][C36_Step]_vars

\* The run of job 1 has failed and released the queue, a cancel request for it is between
\* its read and its write, and the worker has dequeued job 2.
C36_Witness ==
    /\ Exists(1) /\ Status(1) = JOB_STATUS.FAILED
    /\ cancelReq = [pc |-> "update", id |-> 1]
    /\ \E p \in Activations : act[p].pc = "status" /\ act[p].job = 2

\* C37: in every state, if some job is stored as processing then the queue is busy; and
\* the busy flag is cleared only by the activation that holds the job, once the terminal
\* write of its run is in the store: the result of completeJob before queue.complete,
\* the error of failJob before queue.fail.
C37_ProcessingImpliesBusy ==
    \A j \in JobIds : (Exists(j) /\ Status(j) = JOB_STATUS.PROCESSING) => busy

C37_Step ==
    (busy /\ ~ busy') =>
        \E p \in Activations :
            /\ act[p].pc \in {"qcomplete", "qfail"}
            /\ act'[p].pc = "idle"
            /\ jobs' = jobs
            /\ act[p].pc = "qcomplete" => jobs[Job(p)].result # Null
            /\ act[p].pc = "qfail" => jobs[Job(p)].error # Null
            /\ jobs[Job(p)].status # JOB_STATUS.PROCESSING

C37_BusyWhileProcessing == [] C37_ProcessingImpliesBusy /\ [][C37_Step]_vars

\* A job is stored as processing, its run is rendering clips, and another job waits.
C37_Witness ==
    /\ busy
    /\ \E p \in Activations :
          /\ act[p].pc = "clips"
          /\ Status(Job(p)) = JOB_STATUS.PROCESSING
          /\ \E k \in JobIds \ {Job(p)} : Exists(k) /\ Status(k) = JOB_STATUS.QUEUED

\* C38: a job that is stored cancelled and that no activation holds (as is a job
\* cancelled while still queued, before any dequeue returned it) is never dequeued or
\* processed afterwards: no activation ever holds it, no run writes its progress, and its
\* status stays cancelled.
C38_Step ==
    \A j \in JobIds :
        (Exists(j) /\ Status(j) = JOB_STATUS.CANCELLED /\ ~ C10_Held(j)) =>
            /\ jobs'[j].status = JOB_STATUS.CANCELLED
            /\ \A p \in Activations : ~ (act'[p].pc # "idle" /\ act'[p].job = j)
            /\ jobs'[j].progress = jobs[j].progress

C38_CancelledWhileQueuedStaysCancelled == [][C38_Step]_vars

\* Job 1 was cancelled as it was created, with nothing written by a run, and the worker
\* has passed over it: the run of job 2, created after it, has completed.
C38_Witness ==
    /\ Exists(1) /\ Status(1) = JOB_STATUS.CANCELLED
    /\ jobs[1].progress = Progress(PROCESSING_STEPS.DOWNLOADING, 0, "Job queued")
    /\ jobs[1].result = Null /\ jobs[1].error = Null
    /\ Exists(2) /\ Status(2) = JOB_STATUS.COMPLETED
    /\ ~ busy

\* The job of the regenerate request has a stored result that names the request's clip.
C39_ClipOfStoredResult ==
    /\ Exists(titleReq.job)
    /\ jobs[titleReq.job].result # Null
    /\ \E i \in 1..Len(jobs[titleReq.job].result.clips) :
          jobs[titleReq.job].result.clips[i].id = titleReq.clip

\* C39, for every state: a regenerate request that has reached the re-render is for a
\* job with a stored result naming the clip, and such a job is neither queued nor
\* processing.
C39_RenderOnlyForStoredClip ==
    titleReq.pc \notin {"none", "rejected"} =>
        /\ C39_ClipOfStoredResult
        /\ Status(titleReq.job) \notin {JOB_STATUS.QUEUED, JOB_STATUS.PROCESSING}

\* C39, for every step: a stored result changes only by the request's title write, which
\* follows the return of addTitleToClip with the re-rendered file in place; a request
\* that is rejected (no title, no job, no result, no such clip) or that fails leaves the
\* store as it is.
C39_Step ==
    /\ \A j \in JobIds :
          (Exists(j) /\ jobs[j].result # Null /\ jobs'[j].result # jobs[j].result) =>
              /\ titleReq.pc = "returned" /\ titleReq'.pc = "updated"
              /\ titleReq.job = j
              /\ files[titleReq.clip].clip = drawtext(titleReq.old, titleReq.title)
    /\ (titleReq'.pc \in {"rejected", "thrown"} /\ titleReq.pc # titleReq'.pc) => jobs' = jobs

C39_RegenerateOnlyStoredClips == [] C39_RenderOnlyForStoredClip /\ [][C39_Step]_vars

\* A regenerate request for the clip a processing job has rendered was answered 404: the
\* file is there, but the job has no result yet.
C39_Witness ==
    /\ titleReq.pc = "rejected"
    /\ titleReq.code = 404
    /\ Exists(titleReq.job)
    /\ Status(titleReq.job) = JOB_STATUS.PROCESSING
    /\ files[titleReq.clip].clip # Null
====
